---------------------------- MODULE Spec2Model ----------------------------
(***************************************************************************)
(* A model of the xmlbuilder streaming XML generator.                      *)
(*                                                                         *)
(* Two variants of the Builder are modelled side by side:                  *)
(*   - the inline-counter builder (src/unnamed/part_003, lines 307-572):   *)
(*     `inline` is an int, attributes keep their insertion order in        *)
(*     `attrnames`, and Inline/EndInline/Flush/Empty exist;                *)
(*   - src/builder.go: `inline` is a bool, there is a `pretty` flag, and   *)
(*     attributes are kept in a Go map only.                               *)
(* The variable `variant` is chosen at construction and never changes.     *)
(*                                                                         *)
(* Go strings are sequences of one-character strings.  The sink is the     *)
(* sequence of the pieces written to it; each piece records its indent     *)
(* string, the markup it carries and whether a newline follows it.         *)
(***************************************************************************)
EXTENDS Integers, Sequences, FiniteSets, TLC

VARIABLES
    variant,          \* "counter" (part_003 Builder) or "pretty" (builder.go Builder)
    out,              \* what has been written to Builder.writer
    buildingElement,  \* Builder.buildingElement
    attributes,       \* Builder.attributes
    attrnames,        \* Builder.attrnames (counter variant)
    elements,         \* Builder.elements
    indentString,     \* Builder.indentString
    indent,           \* Builder.indent
    offset,           \* Builder.offset
    empty,            \* Builder.empty (counter variant)
    inline,           \* Builder.inline: an int (counter) or a bool (pretty)
    pretty,           \* Builder.pretty (pretty variant)
    panic,            \* "" while running, else the run-time panic that stopped the call
    ids,              \* history: for each entry of elements, the number of the Element call that pushed it
    opened,           \* history: number of elements pushed so far
    sets,             \* history: the pairs stored in attributes since it was last emptied, as
                      \* <<name, value, whether an element was pending>>
    calls,            \* history: the calls made so far
    broken,           \* the sink: TRUE once every Write to Builder.writer returns an error
    lost              \* history: the number of pieces whose write returned an error

vars == <<variant, out, buildingElement, attributes, attrnames, elements,
          indentString, indent, offset, empty, inline, pretty, panic,
          ids, opened, sets, calls, broken, lost>>

-----------------------------------------------------------------------------
(* Bounds of the model *)

\* Calls made on one builder under Spec.
MaxCalls == 3

\* Calls made on one builder under SpecNest.
MaxNestCalls == 6

\* Calls made on one builder under SpecRegion.
MaxRegionCalls == 4

\* Calls of the content wrapped in an inline region.
MaxContent == 2

\* Calls made on one builder under SpecUnit.
MaxUnitCalls == 6

\* Calls made on one builder under SpecSink.
MaxSinkCalls == 3

\* Calls made on one builder under SpecArgs.
MaxArgsCalls == 3

-----------------------------------------------------------------------------
(* Go strings and values *)

Str(c) == <<c>>

\* The value Blank of type blank; its String() is "".
Blank == <<"Blank{}">>

\* Marks a key that is not in the attributes map.
Absent == <<"absent">>

\* fmt.Sprint of one value: a string prints as itself, Blank as "".
s(v) == IF v = Blank THEN <<>> ELSE v

RECURSIVE Repeat(_, _)
\* strings.Repeat for count >= 0 (a negative count panics: see doIndent).
Repeat(str, count) == IF count <= 0 THEN <<>> ELSE str \o Repeat(str, count - 1)

htmlReplacement(c) ==
    CASE c = "&" -> <<"&", "a", "m", "p", ";">>
      [] c = "<" -> <<"&", "l", "t", ";">>
      [] c = ">" -> <<"&", "g", "t", ";">>
      [] OTHER   -> <<c>>

attrReplacement(c) ==
    CASE c = "&"  -> <<"&", "a", "m", "p", ";">>
      [] c = "<"  -> <<"&", "l", "t", ";">>
      [] c = ">"  -> <<"&", "g", "t", ";">>
      [] c = "\"" -> <<"&", "#", "3", "4", ";">>
      [] OTHER    -> <<c>>

RECURSIVE htmlEscaper(_)
htmlEscaper(str) ==
    IF str = <<>> THEN <<>> ELSE htmlReplacement(Head(str)) \o htmlEscaper(Tail(str))

RECURSIVE attrEscaper(_)
attrEscaper(str) ==
    IF str = <<>> THEN <<>> ELSE attrReplacement(Head(str)) \o attrEscaper(Tail(str))

-----------------------------------------------------------------------------
(* The pieces written to the sink *)

\* kind: "start" (a start tag, ending in " />" when slash and in ">" otherwise),
\* "end" (a closing tag), "text", "cdata", "pi", "doctype", "indent" (an
\* indentation alone), "nl" (a newline alone).  ind is the indentation written
\* before the markup, nl whether a newline follows it.  History: id is the
\* element the tag belongs to, and close whether outputElement wrote the tag
\* with close set (the tag both opens and closes its element), and given the
\* name/value pairs that had been stored in attributes when the tag was written.
Piece(kind, ind, name, attrs, data, slash, nl, id, close, given) ==
    [kind |-> kind, ind |-> ind, name |-> name, attrs |-> attrs, data |-> data,
     slash |-> slash, nl |-> nl, id |-> id, close |-> close, given |-> given]

\* A piece that holds no byte at all.
NoBytes(p) ==
    /\ p.kind \in {"text", "indent"}
    /\ p.ind = <<>>
    /\ p.data = <<>>
    /\ ~p.nl

\* A write to b.writer.  The error the Write returns is dropped by every
\* caller (fmt.Fprint's results and b.writer.Write's are not read); a write
\* that fails adds nothing to the sink.
Write(b, p) ==
    IF NoBytes(p) THEN b
    ELSE IF b.broken THEN [b EXCEPT !.lost = @ + 1]
    ELSE [b EXCEPT !.out = Append(@, p)]

Last(q) == q[Len(q)]
Front(q) == SubSeq(q, 1, Len(q) - 1)

\* b.elements = append(b.elements, element)
Push(b, element) ==
    [b EXCEPT !.elements = Append(@, element),
              !.ids = Append(@, b.opened + 1),
              !.opened = @ + 1]

\* b.elements = b.elements[:len(b.elements)-1]
Pop(b) == [b EXCEPT !.elements = Front(@), !.ids = Front(@)]

Panic(b, why) == [b EXCEPT !.panic = why]

\* The keys a model run puts in the attributes map.
Keys == {Str("k"), Str("j"), <<>>}

\* make(map[string]string)
NoAttributes == [key \in Keys |-> Absent]

-----------------------------------------------------------------------------
(* The inline-counter builder: src/unnamed/part_003, lines 307-572 *)

New(v) ==
    [variant |-> v, out |-> <<>>, buildingElement |-> FALSE,
     attributes |-> NoAttributes, attrnames |-> <<>>, elements |-> <<>>,
     indentString |-> <<>>, indent |-> <<" ", " ">>, offset |-> 0,
     empty |-> TRUE, inline |-> IF v = "counter" THEN 0 ELSE FALSE,
     pretty |-> TRUE, panic |-> "", ids |-> <<>>, opened |-> 0, sets |-> <<>>,
     broken |-> FALSE, lost |-> 0]

\* doIndent as it would be if it did not leave the element being written out of
\* the count.
doIndent_deep(b) ==
    LET indentValue == Len(b.elements) + b.offset IN
    IF Len(b.indentString) # Len(b.indent) * indentValue
    THEN IF indentValue < 0
         THEN Panic(b, "strings: negative Repeat count")
         ELSE [b EXCEPT !.indentString = Repeat(b.indent, indentValue)]
    ELSE b

\* The builder after doIndent; the string it returns is the indentString of
\* the result.  strings.Repeat panics on a negative count.
doIndent(b) ==
    LET indentValue == Len(b.elements) + b.offset - 1 IN
    IF Len(b.indentString) # Len(b.indent) * indentValue
    THEN IF indentValue < 0
         THEN Panic(b, "strings: negative Repeat count")
         ELSE [b EXCEPT !.indentString = Repeat(b.indent, indentValue)]
    ELSE b

\* The " key=value" list of a start tag, in attrnames order.
AttrList(b) ==
    [i \in 1..Len(b.attrnames) |->
        LET key == b.attrnames[i]
            value == IF b.attributes[key] = Absent THEN <<>> ELSE b.attributes[key]
        IN <<key, attrEscaper(value)>>]

\* outputElement as it would be if it left the attribute buffer as it is.
outputElement_keep(b, close) ==
    IF ~b.buildingElement THEN b
    ELSE LET b1 == IF b.inline = 0 THEN doIndent(b) ELSE b IN
         IF b1.panic # "" THEN b1
         ELSE IF b1.elements = <<>> THEN Panic(b1, "index out of range")
         ELSE LET p == Piece("start",
                             IF b.inline = 0 THEN b1.indentString ELSE <<>>,
                             Last(b1.elements), AttrList(b1), <<>>,
                             close /\ b1.empty, b.inline = 0, Last(b1.ids), close,
                             b1.sets)
                  b2 == [b1 EXCEPT !.sets = <<>>]
                  b3 == IF close THEN Pop(b2) ELSE b2
              IN [Write(b3, p) EXCEPT !.buildingElement = FALSE]

\* outputElement as it would be if it cleared the pending flag only when it
\* leaves the element open.
outputElement_pending(b, close) ==
    IF ~b.buildingElement THEN b
    ELSE LET b1 == IF b.inline = 0 THEN doIndent(b) ELSE b IN
         IF b1.panic # "" THEN b1
         ELSE IF b1.elements = <<>> THEN Panic(b1, "index out of range")
         ELSE LET p == Piece("start",
                             IF b.inline = 0 THEN b1.indentString ELSE <<>>,
                             Last(b1.elements), AttrList(b1), <<>>,
                             close /\ b1.empty, b.inline = 0, Last(b1.ids), close,
                             b1.sets)
                  b2 == [b1 EXCEPT !.attributes = NoAttributes, !.attrnames = <<>>,
                                   !.sets = <<>>]
                  b3 == IF close THEN Pop(b2) ELSE b2
              IN [Write(b3, p) EXCEPT !.buildingElement = close]

outputElement(b, close) ==
    IF ~b.buildingElement THEN b
    ELSE LET b1 == IF b.inline = 0 THEN doIndent(b) ELSE b IN
         IF b1.panic # "" THEN b1
         ELSE IF b1.elements = <<>> THEN Panic(b1, "index out of range")
         ELSE LET p == Piece("start",
                             IF b.inline = 0 THEN b1.indentString ELSE <<>>,
                             Last(b1.elements), AttrList(b1), <<>>,
                             close /\ b1.empty, b.inline = 0, Last(b1.ids), close,
                             b1.sets)
                  b2 == [b1 EXCEPT !.attributes = NoAttributes, !.attrnames = <<>>,
                                   !.sets = <<>>]
                  b3 == IF close THEN Pop(b2) ELSE b2
              IN [Write(b3, p) EXCEPT !.buildingElement = FALSE]

Flush(b) == outputElement(b, FALSE)

Inline(b) ==
    LET b1 == IF b.inline = 0
              THEN LET f == Flush(b) IN
                   IF f.panic # "" THEN f
                   ELSE LET d == doIndent([f EXCEPT !.offset = @ + 1]) IN
                        IF d.panic # "" THEN d
                        ELSE [Write(d, Piece("indent", d.indentString, <<>>, <<>>, <<>>,
                                             FALSE, FALSE, 0, FALSE, <<>>))
                                EXCEPT !.offset = @ - 1]
              ELSE b
    IN IF b1.panic # "" THEN b1 ELSE [b1 EXCEPT !.inline = @ + 1]

\* EndInline as it would be if the inline mode were a flag that any EndInline
\* clears.
EndInline_flag(b) ==
    Write([b EXCEPT !.inline = 0],
          Piece("nl", <<>>, <<>>, <<>>, <<>>, FALSE, TRUE, 0, FALSE, <<>>))

EndInline(b) ==
    LET b1 == [b EXCEPT !.inline = @ - 1] IN
    IF b1.inline = 0
    THEN Write(b1, Piece("nl", <<>>, <<>>, <<>>, <<>>, FALSE, TRUE, 0, FALSE, <<>>))
    ELSE b1

\* Attr as it would be if it listed the name again each time the name is set.
Attr_again(b, name, value) ==
    [b EXCEPT !.attrnames = Append(@, name),
              !.attributes[name] = s(value),
              !.sets = Append(@, <<name, s(value), b.buildingElement>>)]

\* Attr as it would be if it wrote the start tag as soon as the attribute is set.
Attr_eager(b, name, value) ==
    LET b1 == IF b.attributes[name] = Absent
              THEN [b EXCEPT !.attrnames = Append(@, name)]
              ELSE b
    IN outputElement([b1 EXCEPT !.attributes[name] = s(value),
                                !.sets = Append(@, <<name, s(value), b.buildingElement>>)], FALSE)

Attr(b, name, value) ==
    LET b1 == IF b.attributes[name] = Absent
              THEN [b EXCEPT !.attrnames = Append(@, name)]
              ELSE b
    IN [b1 EXCEPT !.attributes[name] = s(value),
                  !.sets = Append(@, <<name, s(value), b.buildingElement>>)]

Chars(b, chars) ==
    LET b1 == outputElement(b, FALSE) IN
    IF b1.panic # "" THEN b1
    ELSE LET line == s(chars) IN
         IF b1.inline > 0
         THEN Write(b1, Piece("text", <<>>, <<>>, <<>>, htmlEscaper(line), FALSE, FALSE, 0, FALSE, <<>>))
         ELSE LET d == doIndent(b1) IN
              IF d.panic # "" THEN d
              ELSE Write(d, Piece("text", d.indentString \o d.indent, <<>>, <<>>,
                                  htmlEscaper(line), FALSE, TRUE, 0, FALSE, <<>>))

CharsNoEscape(b, chars) ==
    LET b1 == outputElement(b, FALSE) IN
    IF b1.panic # "" THEN b1
    ELSE LET line == s(chars) IN
         IF b1.inline > 0
         THEN Write(b1, Piece("text", <<>>, <<>>, <<>>, line, FALSE, FALSE, 0, FALSE, <<>>))
         ELSE LET d == doIndent(b1) IN
              IF d.panic # "" THEN d
              ELSE Write(d, Piece("text", d.indentString \o d.indent, <<>>, <<>>,
                                  line, FALSE, TRUE, 0, FALSE, <<>>))

\* Cdata as it would be if it wrote the section on a line of its own at every
\* inline depth.
Cdata_block(b, data) ==
    LET b1 == outputElement(b, FALSE) IN
    IF b1.panic # "" THEN b1
    ELSE LET d == doIndent(b1) IN
         IF d.panic # "" THEN d
         ELSE Write(d, Piece("cdata", d.indentString \o d.indent, <<>>, <<>>,
                             s(data), FALSE, TRUE, 0, FALSE, <<>>))

Cdata(b, data) ==
    LET b1 == outputElement(b, FALSE) IN
    IF b1.panic # "" THEN b1
    ELSE LET line == s(data) IN
         IF b1.inline > 0
         THEN Write(b1, Piece("cdata", <<>>, <<>>, <<>>, line, FALSE, FALSE, 0, FALSE, <<>>))
         ELSE LET d == doIndent(b1) IN
              IF d.panic # "" THEN d
              ELSE Write(d, Piece("cdata", d.indentString \o d.indent, <<>>, <<>>,
                                  line, FALSE, TRUE, 0, FALSE, <<>>))

RECURSIVE ElementAttrs(_, _, _)
\* The loop of Element over its key/value pairs, from 0-based index i.
ElementAttrs(b, args, i) ==
    IF i >= Len(args) THEN b
    ELSE IF i + 1 >= Len(args) THEN Panic(b, "index out of range")
    ELSE LET a == s(args[i + 1])   \* args[i+0]: the model's sequences start at 1
             v == s(args[i + 2])   \* args[i+1]
             b1 == IF a # <<>> /\ (v # <<>> \/ args[i + 2] = Blank)
                   THEN Attr(b, a, v)
                   ELSE b
         IN ElementAttrs(b1, args, i + 2)

\* Element as it would be if it wrote its text argument without escaping it
\* (as ElementNoEscape does).
Element_raw(b, element, args) ==
    LET b0 == IF b.buildingElement THEN outputElement(b, FALSE) ELSE b IN
    IF b0.panic # "" THEN b0
    ELSE LET b1 == Push([b0 EXCEPT !.buildingElement = TRUE], element)
             first == Len(args) % 2
             b2 == ElementAttrs(b1, args, first)
         IN IF first # 0 THEN CharsNoEscape(b2, args[1]) ELSE b2

\* Element as it would be if it took its text from the end of the argument
\* list and its pairs from the arguments before it.
Element_trailing(b, element, args) ==
    LET b0 == IF b.buildingElement THEN outputElement(b, FALSE) ELSE b IN
    IF b0.panic # "" THEN b0
    ELSE LET b1 == Push([b0 EXCEPT !.buildingElement = TRUE], element)
             first == Len(args) % 2
             b2 == ElementAttrs(b1, IF first # 0 THEN Front(args) ELSE args, 0)
         IN IF first # 0 THEN Chars(b2, Last(args)) ELSE b2

Element(b, element, args) ==
    LET b0 == IF b.buildingElement THEN outputElement(b, FALSE) ELSE b IN
    IF b0.panic # "" THEN b0
    ELSE LET b1 == Push([b0 EXCEPT !.buildingElement = TRUE], element)
             first == Len(args) % 2
             b2 == ElementAttrs(b1, args, first)
         IN IF first # 0 THEN Chars(b2, args[1]) ELSE b2

\* End as it would be if, on an empty stack, it wrote a closing tag with no
\* name and returned.
End_unnamed(b) ==
    IF b.buildingElement THEN outputElement(b, TRUE)
    ELSE IF b.elements = <<>>
         THEN Write(b, Piece("end", <<>>, <<>>, <<>>, <<>>, FALSE, b.inline <= 0, 0,
                             FALSE, <<>>))
         ELSE IF b.inline > 0
              THEN Pop(Write(b, Piece("end", <<>>, Last(b.elements), <<>>, <<>>,
                                      FALSE, FALSE, Last(b.ids), FALSE, <<>>)))
              ELSE LET d == doIndent(b) IN
                   IF d.panic # "" THEN d
                   ELSE Pop(Write(d, Piece("end", d.indentString, Last(d.elements), <<>>,
                                           <<>>, FALSE, TRUE, Last(d.ids), FALSE, <<>>)))

\* End as it would be if it wrote the closing tag on a line of its own at
\* every inline depth.
End_block(b) ==
    IF b.buildingElement THEN outputElement(b, TRUE)
    ELSE LET d == doIndent(b) IN
         IF d.panic # "" THEN d
         ELSE IF d.elements = <<>> THEN Panic(d, "index out of range")
         ELSE Pop(Write(d, Piece("end", d.indentString, Last(d.elements), <<>>, <<>>,
                                 FALSE, TRUE, Last(d.ids), FALSE, <<>>)))

\* End as it would be if the closing tag were named after the outermost open
\* element instead of the innermost.
End_outermost(b) ==
    IF b.buildingElement THEN outputElement(b, TRUE)
    ELSE IF b.inline > 0
         THEN IF b.elements = <<>> THEN Panic(b, "index out of range")
              ELSE Pop(Write(b, Piece("end", <<>>, Head(b.elements), <<>>, <<>>,
                                      FALSE, FALSE, Head(b.ids), FALSE, <<>>)))
         ELSE LET d == doIndent(b) IN
              IF d.panic # "" THEN d
              ELSE IF d.elements = <<>> THEN Panic(d, "index out of range")
              ELSE Pop(Write(d, Piece("end", d.indentString, Head(d.elements), <<>>, <<>>,
                                      FALSE, TRUE, Head(d.ids), FALSE, <<>>)))

End(b) ==
    IF b.buildingElement THEN outputElement(b, TRUE)
    ELSE IF b.inline > 0
         THEN IF b.elements = <<>> THEN Panic(b, "index out of range")
              ELSE Pop(Write(b, Piece("end", <<>>, Last(b.elements), <<>>, <<>>,
                                      FALSE, FALSE, Last(b.ids), FALSE, <<>>)))
         ELSE LET d == doIndent(b) IN
              IF d.panic # "" THEN d
              ELSE IF d.elements = <<>> THEN Panic(d, "index out of range")
              ELSE Pop(Write(d, Piece("end", d.indentString, Last(d.elements), <<>>, <<>>,
                                      FALSE, TRUE, Last(d.ids), FALSE, <<>>)))

\* Tag as it would be if it did not leave the inline mode it entered.
Tag_unclosed(b, element, args) ==
    LET b1 == Inline(b)
        b2 == IF b1.panic # "" THEN b1 ELSE Element(b1, element, args)
    IN IF b2.panic # "" THEN b2 ELSE End(b2)

Tag(b, element, args) ==
    LET b1 == Inline(b)
        b2 == IF b1.panic # "" THEN b1 ELSE Element(b1, element, args)
        b3 == IF b2.panic # "" THEN b2 ELSE End(b2)
    IN IF b3.panic # "" THEN b3 ELSE EndInline(b3)

\* Instruct as it would be if it ended the line only at inline depth 0.
Instruct_inline(b, name, args) ==
    Write(b, Piece("pi", <<>>, name,
                   [i \in 1..(Len(args) \div 2) |->
                       <<s(args[2 * i - 1]), attrEscaper(s(args[2 * i]))>>],
                   <<>>, FALSE, b.inline = 0, 0, FALSE, <<>>))

\* The " name=value" list of a processing instruction.
InstructList(args) ==
    [i \in 1..(Len(args) \div 2) |-> <<s(args[2 * i - 1]), attrEscaper(s(args[2 * i]))>>]

Instruct(b, name, args) ==
    Write(b, Piece("pi", <<>>, name, InstructList(args), <<>>, FALSE, TRUE, 0, FALSE, <<>>))

InstructXML(b) ==
    Instruct(b, <<"x", "m", "l">>,
             <<Str("version"), Str("1.0"), Str("encoding"), Str("UTF-8")>>)

Doctype(b, doctype) ==
    Write(b, Piece("doctype", <<>>, <<>>, <<>>, doctype, FALSE, TRUE, 0, FALSE, <<>>))

\* Offset as it would be if it set the offset to its argument.
Offset_set(b, delta) == [b EXCEPT !.offset = delta]

Offset(b, delta) == [b EXCEPT !.offset = @ + delta]

Indent(b, unit) == [b EXCEPT !.indent = unit]

Empty(b, useEmpty) == [b EXCEPT !.empty = useEmpty]


-----------------------------------------------------------------------------
(* The builder of src/builder.go *)

\* The orders in which a range over the attributes map may visit its keys.  Go
\* leaves the order unspecified; the key "" is never written, so its place
\* does not matter.
Orders == {<<Str("k"), Str("j"), <<>>>>, <<Str("j"), Str("k"), <<>>>>}

\* The builder after doIndent; the string it returns is builder_indentOf.
builder_doIndent(b) ==
    IF ~b.pretty THEN b
    ELSE LET indentValue == Len(b.elements) + b.offset - 1 IN
         IF Len(b.indentString) # Len(b.indent) * indentValue
         THEN IF indentValue < 0
              THEN Panic(b, "strings: negative Repeat count")
              ELSE [b EXCEPT !.indentString = Repeat(b.indent, indentValue)]
         ELSE b

\* What doIndent returned, given the builder it left.
builder_indentOf(d) == IF ~d.pretty THEN <<>> ELSE d.indentString

\* The " key=value" list of a start tag: the map ranged over in order ord.
builder_AttrList(b, ord) ==
    LET present == SelectSeq(ord, LAMBDA key:
                       /\ b.attributes[key] # Absent
                       /\ key # <<>>
                       /\ b.attributes[key] # <<>>)
    IN [i \in 1..Len(present) |-> <<present[i], attrEscaper(b.attributes[present[i]])>>]

builder_outputElement(b, close, newline, ord) ==
    IF ~b.buildingElement THEN b
    ELSE LET d == builder_doIndent(b) IN
         IF d.panic # "" THEN d
         ELSE IF d.elements = <<>> THEN Panic(d, "index out of range")
         ELSE LET p == Piece("start", builder_indentOf(d), Last(d.elements),
                             builder_AttrList(d, ord), <<>>, close, newline, Last(d.ids), close,
                             d.sets)
                  b2 == [d EXCEPT !.attributes = NoAttributes, !.sets = <<>>]
                  b3 == IF close THEN Pop(b2) ELSE b2
              IN [Write(b3, p) EXCEPT !.buildingElement = FALSE]

\* Attr as it would be if it did nothing while no element is pending.
builder_Attr_pending(b, name, value) ==
    IF b.buildingElement
    THEN [b EXCEPT !.attributes[name] = s(value),
                   !.sets = Append(@, <<name, s(value), TRUE>>)]
    ELSE b

builder_Attr(b, name, value) ==
    [b EXCEPT !.attributes[name] = s(value), !.sets = Append(@, <<name, s(value), b.buildingElement>>)]

builder_Chars(b, chars, ord) ==
    LET b1 == builder_outputElement(b, FALSE, b.pretty /\ ~b.inline, ord) IN
    IF b1.panic # "" THEN b1
    ELSE IF b1.inline \/ ~b1.pretty
         THEN Write(b1, Piece("text", <<>>, <<>>, <<>>, htmlEscaper(s(chars)), FALSE, FALSE, 0, FALSE, <<>>))
         ELSE LET d == builder_doIndent(b1) IN
              IF d.panic # "" THEN d
              ELSE Write(d, Piece("text", builder_indentOf(d) \o d.indent, <<>>, <<>>,
                                  htmlEscaper(s(chars)), FALSE, TRUE, 0, FALSE, <<>>))

builder_CharsNoEscape(b, chars, ord) ==
    LET b1 == builder_outputElement(b, FALSE, b.pretty /\ ~b.inline, ord) IN
    IF b1.panic # "" THEN b1
    ELSE IF b1.inline \/ ~b1.pretty
         THEN Write(b1, Piece("text", <<>>, <<>>, <<>>, s(chars), FALSE, FALSE, 0, FALSE, <<>>))
         ELSE LET d == builder_doIndent(b1) IN
              IF d.panic # "" THEN d
              ELSE Write(d, Piece("text", builder_indentOf(d) \o d.indent, <<>>, <<>>,
                                  s(chars), FALSE, TRUE, 0, FALSE, <<>>))

builder_Cdata(b, data, ord) ==
    LET b1 == builder_outputElement(b, FALSE, b.pretty, ord) IN
    IF b1.panic # "" THEN b1
    ELSE LET d == builder_doIndent(b1) IN
         IF d.panic # "" THEN d
         ELSE Write(d, Piece("cdata", builder_indentOf(d) \o d.indent, <<>>, <<>>,
                             s(data), FALSE, d.pretty, 0, FALSE, <<>>))

RECURSIVE builder_ElementAttrs(_, _, _)
\* The loop of Element over its key/value pairs, from 0-based index i.
builder_ElementAttrs(b, args, i) ==
    IF i >= Len(args) THEN b
    ELSE IF i + 1 >= Len(args) THEN Panic(b, "index out of range")
    ELSE builder_ElementAttrs(
             [b EXCEPT !.attributes[s(args[i + 1])] = s(args[i + 2]),
                       !.sets = Append(@, <<s(args[i + 1]), s(args[i + 2]),
                                         b.buildingElement>>)],
             args, i + 2)

\* ord1 orders the range that flushes the element pending before the call, ord2
\* the one that flushes the new element when a text argument follows.
builder_Element(b, element, args, ord1, ord2) ==
    LET b0 == IF b.buildingElement
              THEN builder_outputElement(b, FALSE, b.pretty, ord1)
              ELSE b
    IN IF b0.panic # "" THEN b0
       ELSE LET b1 == Push([b0 EXCEPT !.buildingElement = TRUE], element)
                first == Len(args) % 2
                b2 == builder_ElementAttrs(b1, args, first)
            IN IF first # 0 THEN builder_Chars(b2, args[1], ord2) ELSE b2

builder_End(b, ord) ==
    IF b.buildingElement THEN builder_outputElement(b, TRUE, b.pretty, ord)
    ELSE IF b.inline
         THEN IF b.elements = <<>> THEN Panic(b, "index out of range")
              ELSE Pop(Write(b, Piece("end", <<>>, Last(b.elements), <<>>, <<>>,
                                      FALSE, b.pretty, Last(b.ids), FALSE, <<>>)))
         ELSE LET d == builder_doIndent(b) IN
              IF d.panic # "" THEN d
              ELSE IF d.elements = <<>> THEN Panic(d, "index out of range")
              ELSE Pop(Write(d, Piece("end", builder_indentOf(d), Last(d.elements), <<>>,
                                      <<>>, FALSE, d.pretty, Last(d.ids), FALSE, <<>>)))

builder_Tag(b, element, args, ord1, ord2) ==
    LET b1 == [b EXCEPT !.inline = TRUE]
        b2 == builder_Element(b1, element, args, ord1, ord2)
        b3 == IF b2.panic # "" THEN b2 ELSE builder_End(b2, ord2)
    IN IF b3.panic # "" THEN b3 ELSE [b3 EXCEPT !.inline = FALSE]

builder_Instruct(b, name, args) ==
    Write(b, Piece("pi", <<>>, name, InstructList(args), <<>>, FALSE, TRUE, 0, FALSE, <<>>))

builder_InstructXML(b) ==
    builder_Instruct(b, <<"x", "m", "l">>,
                     <<Str("version"), Str("1.0"), Str("encoding"), Str("UTF-8")>>)

builder_Doctype(b, doctype) ==
    Write(b, Piece("doctype", <<>>, <<>>, <<>>, doctype, FALSE, TRUE, 0, FALSE, <<>>))

builder_Offset(b, delta) == [b EXCEPT !.offset = @ + delta]

builder_Indent(b, unit) == [b EXCEPT !.indent = unit]

builder_Pretty(b, on) == [b EXCEPT !.pretty = on]


-----------------------------------------------------------------------------
(* The caller: one action per exported method *)

K == Str("k")
J == Str("j")

\* Element names, and the name Tag is called with.
Names == {Str("a"), Str("b")}
TagNames == {Str("t")}

\* Argument lists of Element and Tag: none, one pair, three pairs of which the
\* last repeats the name of the first, a text alone.
ElementArgs ==
    {<<>>, <<K, Str("v")>>, <<K, Str("v"), J, Str("w"), K, Str("y")>>, <<Str("<")>>}

\* Arguments of Attr.
AttrNames == {K, J}
AttrValues == {Str("x"), <<>>}

\* Arguments of Chars, CharsNoEscape and Cdata.
Texts == {Str("<")}

\* Arguments of Offset and Indent.
Deltas == {-1, 1}
Units == {<<"-", "-">>, <<"\t">>}

Cur ==
    [variant |-> variant, out |-> out, buildingElement |-> buildingElement,
     attributes |-> attributes, attrnames |-> attrnames, elements |-> elements,
     indentString |-> indentString, indent |-> indent, offset |-> offset,
     empty |-> empty, inline |-> inline, pretty |-> pretty, panic |-> panic,
     ids |-> ids, opened |-> opened, sets |-> sets, broken |-> broken, lost |-> lost]

\* The record of a call: the strings it was given (name and args), and the
\* number or the boolean where it was given one.
Call(op, name, args) ==
    [op |-> op, name |-> name, args |-> args, delta |-> 0, on |-> FALSE]
CallDelta(op, delta) == [Call(op, <<>>, <<>>) EXCEPT !.delta = delta]
CallOn(op, on) == [Call(op, <<>>, <<>>) EXCEPT !.on = on]

\* The builder becomes nb by the call c.
Becomes(nb, c) ==
    /\ variant' = nb.variant
    /\ out' = nb.out
    /\ buildingElement' = nb.buildingElement
    /\ attributes' = nb.attributes
    /\ attrnames' = nb.attrnames
    /\ elements' = nb.elements
    /\ indentString' = nb.indentString
    /\ indent' = nb.indent
    /\ offset' = nb.offset
    /\ empty' = nb.empty
    /\ inline' = nb.inline
    /\ pretty' = nb.pretty
    /\ panic' = nb.panic
    /\ ids' = nb.ids
    /\ opened' = nb.opened
    /\ sets' = nb.sets
    /\ broken' = nb.broken
    /\ lost' = nb.lost
    /\ calls' = Append(calls, c)

\* A call can be made: no earlier call panicked, and the caller has calls left.
Ready(v, max) == variant = v /\ panic = "" /\ Len(calls) < max

\* The builder New returns, of either variant.
Init ==
    \E v \in {"counter", "pretty"} :
        LET nb == New(v) IN
        /\ variant = nb.variant
        /\ out = nb.out
        /\ buildingElement = nb.buildingElement
        /\ attributes = nb.attributes
        /\ attrnames = nb.attrnames
        /\ elements = nb.elements
        /\ indentString = nb.indentString
        /\ indent = nb.indent
        /\ offset = nb.offset
        /\ empty = nb.empty
        /\ inline = nb.inline
        /\ pretty = nb.pretty
        /\ panic = nb.panic
        /\ ids = nb.ids
        /\ opened = nb.opened
        /\ sets = nb.sets
        /\ broken = nb.broken
        /\ lost = nb.lost
        /\ calls = <<>>

ElementCall ==
    /\ Ready("counter", MaxCalls)
    /\ \E element \in Names, args \in ElementArgs :
          Becomes(Element(Cur, element, args), Call("Element", element, args))

AttrCall ==
    /\ Ready("counter", MaxCalls)
    /\ \E name \in AttrNames, value \in AttrValues :
          Becomes(Attr(Cur, name, value), Call("Attr", name, <<value>>))

EndCall ==
    /\ Ready("counter", MaxCalls)
    /\ Becomes(End(Cur), Call("End", <<>>, <<>>))

TagCall ==
    /\ Ready("counter", MaxCalls)
    /\ \E element \in TagNames, args \in ElementArgs :
          Becomes(Tag(Cur, element, args), Call("Tag", element, args))

CharsCall ==
    /\ Ready("counter", MaxCalls)
    /\ \E chars \in Texts : Becomes(Chars(Cur, chars), Call("Chars", <<>>, <<chars>>))

CharsNoEscapeCall ==
    /\ Ready("counter", MaxCalls)
    /\ \E chars \in Texts :
          Becomes(CharsNoEscape(Cur, chars), Call("CharsNoEscape", <<>>, <<chars>>))

CdataCall ==
    /\ Ready("counter", MaxCalls)
    /\ \E data \in Texts : Becomes(Cdata(Cur, data), Call("Cdata", <<>>, <<data>>))

InlineCall ==
    /\ Ready("counter", MaxCalls)
    /\ Becomes(Inline(Cur), Call("Inline", <<>>, <<>>))

EndInlineCall ==
    /\ Ready("counter", MaxCalls)
    /\ Becomes(EndInline(Cur), Call("EndInline", <<>>, <<>>))

FlushCall ==
    /\ Ready("counter", MaxCalls)
    /\ Becomes(Flush(Cur), Call("Flush", <<>>, <<>>))

InstructCall ==
    /\ Ready("counter", MaxCalls)
    /\ Becomes(InstructXML(Cur), Call("InstructXML", <<>>, <<>>))

DoctypeCall ==
    /\ Ready("counter", MaxCalls)
    /\ Becomes(Doctype(Cur, Str("html")), Call("Doctype", <<>>, <<Str("html")>>))

OffsetCall ==
    /\ Ready("counter", MaxCalls)
    /\ \E delta \in Deltas : Becomes(Offset(Cur, delta), CallDelta("Offset", delta))

IndentCall ==
    /\ Ready("counter", MaxCalls)
    /\ \E unit \in Units : Becomes(Indent(Cur, unit), Call("Indent", <<>>, <<unit>>))

EmptyCall ==
    /\ Ready("counter", MaxCalls)
    /\ \E useEmpty \in BOOLEAN :
          Becomes(Empty(Cur, useEmpty), CallOn("Empty", useEmpty))

builder_ElementCall ==
    /\ Ready("pretty", MaxCalls)
    /\ \E element \in Names, args \in ElementArgs, ord1 \in Orders, ord2 \in Orders :
          Becomes(builder_Element(Cur, element, args, ord1, ord2),
                  Call("Element", element, args))

builder_AttrCall ==
    /\ Ready("pretty", MaxCalls)
    /\ \E name \in AttrNames, value \in AttrValues :
          Becomes(builder_Attr(Cur, name, value), Call("Attr", name, <<value>>))

builder_EndCall ==
    /\ Ready("pretty", MaxCalls)
    /\ \E ord \in Orders : Becomes(builder_End(Cur, ord), Call("End", <<>>, <<>>))

builder_TagCall ==
    /\ Ready("pretty", MaxCalls)
    /\ \E element \in TagNames, args \in ElementArgs, ord1 \in Orders, ord2 \in Orders :
          Becomes(builder_Tag(Cur, element, args, ord1, ord2), Call("Tag", element, args))

builder_CharsCall ==
    /\ Ready("pretty", MaxCalls)
    /\ \E chars \in Texts, ord \in Orders :
          Becomes(builder_Chars(Cur, chars, ord), Call("Chars", <<>>, <<chars>>))

builder_CharsNoEscapeCall ==
    /\ Ready("pretty", MaxCalls)
    /\ \E chars \in Texts, ord \in Orders :
          Becomes(builder_CharsNoEscape(Cur, chars, ord),
                  Call("CharsNoEscape", <<>>, <<chars>>))

builder_CdataCall ==
    /\ Ready("pretty", MaxCalls)
    /\ \E data \in Texts, ord \in Orders :
          Becomes(builder_Cdata(Cur, data, ord), Call("Cdata", <<>>, <<data>>))

builder_InstructCall ==
    /\ Ready("pretty", MaxCalls)
    /\ Becomes(builder_InstructXML(Cur), Call("InstructXML", <<>>, <<>>))

builder_DoctypeCall ==
    /\ Ready("pretty", MaxCalls)
    /\ Becomes(builder_Doctype(Cur, Str("html")), Call("Doctype", <<>>, <<Str("html")>>))

builder_OffsetCall ==
    /\ Ready("pretty", MaxCalls)
    /\ \E delta \in Deltas :
          Becomes(builder_Offset(Cur, delta), CallDelta("Offset", delta))

builder_IndentCall ==
    /\ Ready("pretty", MaxCalls)
    /\ \E unit \in Units : Becomes(builder_Indent(Cur, unit), Call("Indent", <<>>, <<unit>>))

builder_PrettyCall ==
    /\ Ready("pretty", MaxCalls)
    /\ \E on \in BOOLEAN : Becomes(builder_Pretty(Cur, on), CallOn("Pretty", on))

Next ==
    \/ ElementCall \/ AttrCall \/ EndCall \/ TagCall
    \/ CharsCall \/ CharsNoEscapeCall \/ CdataCall
    \/ InlineCall \/ EndInlineCall \/ FlushCall
    \/ InstructCall \/ DoctypeCall
    \/ OffsetCall \/ IndentCall \/ EmptyCall
    \/ builder_ElementCall \/ builder_AttrCall \/ builder_EndCall \/ builder_TagCall
    \/ builder_CharsCall \/ builder_CharsNoEscapeCall \/ builder_CdataCall
    \/ builder_InstructCall \/ builder_DoctypeCall
    \/ builder_OffsetCall \/ builder_IndentCall \/ builder_PrettyCall

Spec == Init /\ [][Next]_vars

-----------------------------------------------------------------------------
(* A caller of the inline-counter builder that makes only Element calls with  *)
(* key/value pairs and End calls, and never calls End on an empty stack.      *)

\* Argument lists: no pair; a name given twice among others; a pair with an
\* empty value, a Blank value and a pair with an empty name.
NestArgs ==
    {<<>>,
     <<K, Str("v"), J, Str("w"), K, Str("x")>>,
     <<K, <<>>, J, Blank, <<>>, Str("v")>>}

NestInit == Init /\ variant = "counter"

NestElementCall ==
    /\ Ready("counter", MaxNestCalls)
    /\ \E element \in Names, args \in NestArgs :
          Becomes(Element(Cur, element, args), Call("Element", element, args))

NestEndCall ==
    /\ Ready("counter", MaxNestCalls)
    /\ elements # <<>>
    /\ Becomes(End(Cur), Call("End", <<>>, <<>>))

NestNext == NestElementCall \/ NestEndCall

SpecNest == NestInit /\ [][NestNext]_vars

-----------------------------------------------------------------------------
(* A caller of the inline-counter builder that opens and closes inline      *)
(* regions around content: Inline, EndInline, and the calls that write      *)
(* content (Element, Chars, Cdata, End, Tag).                               *)

\* The calls that write content.
ContentCalls ==
    {Call("Element", Str("a"), <<>>), Call("Chars", <<>>, <<Str("<")>>),
     Call("Cdata", <<>>, <<Str("<")>>), Call("End", <<>>, <<>>),
     Call("Tag", Str("t"), <<Str("<")>>)}

\* The builder after the call c.
Do(b, c) ==
    CASE c.op = "Element"   -> Element(b, c.name, c.args)
      [] c.op = "Chars"     -> Chars(b, c.args[1])
      [] c.op = "Cdata"     -> Cdata(b, c.args[1])
      [] c.op = "End"       -> End(b)
      [] c.op = "Tag"       -> Tag(b, c.name, c.args)
      [] c.op = "Inline"    -> Inline(b)
      [] c.op = "EndInline" -> EndInline(b)

RECURSIVE Run(_, _)
\* The builder after the calls cs, made one after the other until one panics.
Run(b, cs) ==
    IF cs = <<>> \/ b.panic # "" THEN b ELSE Run(Do(b, Head(cs)), Tail(cs))

RegionInit == Init /\ variant = "counter"

RegionInlineCall ==
    /\ Ready("counter", MaxRegionCalls)
    /\ Becomes(Inline(Cur), Call("Inline", <<>>, <<>>))

RegionEndInlineCall ==
    /\ Ready("counter", MaxRegionCalls)
    /\ Becomes(EndInline(Cur), Call("EndInline", <<>>, <<>>))

RegionElementCall ==
    /\ Ready("counter", MaxRegionCalls)
    /\ Becomes(Element(Cur, Str("a"), <<>>), Call("Element", Str("a"), <<>>))

RegionCharsCall ==
    /\ Ready("counter", MaxRegionCalls)
    /\ Becomes(Chars(Cur, Str("<")), Call("Chars", <<>>, <<Str("<")>>))

RegionCdataCall ==
    /\ Ready("counter", MaxRegionCalls)
    /\ Becomes(Cdata(Cur, Str("<")), Call("Cdata", <<>>, <<Str("<")>>))

RegionEndCall ==
    /\ Ready("counter", MaxRegionCalls)
    /\ Becomes(End(Cur), Call("End", <<>>, <<>>))

RegionTagCall ==
    /\ Ready("counter", MaxRegionCalls)
    /\ Becomes(Tag(Cur, Str("t"), <<Str("<")>>), Call("Tag", Str("t"), <<Str("<")>>))

RegionNext ==
    \/ RegionInlineCall \/ RegionEndInlineCall
    \/ RegionElementCall \/ RegionCharsCall \/ RegionCdataCall
    \/ RegionEndCall \/ RegionTagCall

SpecRegion == RegionInit /\ [][RegionNext]_vars

-----------------------------------------------------------------------------
(* A caller of the inline-counter builder that changes the indent unit and  *)
(* the offset between the calls that write lines.                           *)

UnitInit == Init /\ variant = "counter"

UnitElementCall ==
    /\ Ready("counter", MaxUnitCalls)
    /\ Becomes(Element(Cur, Str("a"), <<>>), Call("Element", Str("a"), <<>>))

UnitEndCall ==
    /\ Ready("counter", MaxUnitCalls)
    /\ Becomes(End(Cur), Call("End", <<>>, <<>>))

UnitCharsCall ==
    /\ Ready("counter", MaxUnitCalls)
    /\ Becomes(Chars(Cur, Str("<")), Call("Chars", <<>>, <<Str("<")>>))

UnitTagCall ==
    /\ Ready("counter", MaxUnitCalls)
    /\ Becomes(Tag(Cur, Str("t"), <<Str("<")>>), Call("Tag", Str("t"), <<Str("<")>>))

UnitInlineCall ==
    /\ Ready("counter", MaxUnitCalls)
    /\ Becomes(Inline(Cur), Call("Inline", <<>>, <<>>))

UnitEndInlineCall ==
    /\ Ready("counter", MaxUnitCalls)
    /\ Becomes(EndInline(Cur), Call("EndInline", <<>>, <<>>))

UnitOffsetCall ==
    /\ Ready("counter", MaxUnitCalls)
    /\ \E delta \in Deltas : Becomes(Offset(Cur, delta), CallDelta("Offset", delta))

UnitIndentCall ==
    /\ Ready("counter", MaxUnitCalls)
    /\ \E unit \in Units : Becomes(Indent(Cur, unit), Call("Indent", <<>>, <<unit>>))

UnitNext ==
    \/ UnitElementCall \/ UnitEndCall \/ UnitCharsCall \/ UnitTagCall
    \/ UnitInlineCall \/ UnitEndInlineCall
    \/ UnitOffsetCall \/ UnitIndentCall

SpecUnit == UnitInit /\ [][UnitNext]_vars

-----------------------------------------------------------------------------
(* A caller whose sink can start to fail: from then on every Write to it     *)
(* returns an error.  The caller goes on calling the builder.                *)

\* The sink starts to fail (a full disk, a closed connection).
SinkBreaks ==
    /\ ~broken
    /\ panic = ""
    /\ broken' = TRUE
    /\ UNCHANGED <<variant, out, buildingElement, attributes, attrnames, elements,
                   indentString, indent, offset, empty, inline, pretty, panic,
                   ids, opened, sets, calls, lost>>

SinkElementCall ==
    /\ Ready("counter", MaxSinkCalls)
    /\ \E args \in {<<>>, <<Str("<")>>} :
          Becomes(Element(Cur, Str("a"), args), Call("Element", Str("a"), args))

SinkEndCall ==
    /\ Ready("counter", MaxSinkCalls)
    /\ Becomes(End(Cur), Call("End", <<>>, <<>>))

SinkCharsCall ==
    /\ Ready("counter", MaxSinkCalls)
    /\ Becomes(Chars(Cur, Str("<")), Call("Chars", <<>>, <<Str("<")>>))

SinkCdataCall ==
    /\ Ready("counter", MaxSinkCalls)
    /\ Becomes(Cdata(Cur, Str("<")), Call("Cdata", <<>>, <<Str("<")>>))

SinkInlineCall ==
    /\ Ready("counter", MaxSinkCalls)
    /\ Becomes(Inline(Cur), Call("Inline", <<>>, <<>>))

SinkEndInlineCall ==
    /\ Ready("counter", MaxSinkCalls)
    /\ Becomes(EndInline(Cur), Call("EndInline", <<>>, <<>>))

SinkFlushCall ==
    /\ Ready("counter", MaxSinkCalls)
    /\ Becomes(Flush(Cur), Call("Flush", <<>>, <<>>))

SinkInstructCall ==
    /\ Ready("counter", MaxSinkCalls)
    /\ Becomes(InstructXML(Cur), Call("InstructXML", <<>>, <<>>))

SinkDoctypeCall ==
    /\ Ready("counter", MaxSinkCalls)
    /\ Becomes(Doctype(Cur, Str("html")), Call("Doctype", <<>>, <<Str("html")>>))

builder_SinkElementCall ==
    /\ Ready("pretty", MaxSinkCalls)
    /\ \E ord \in Orders :
          Becomes(builder_Element(Cur, Str("a"), <<>>, ord, ord),
                  Call("Element", Str("a"), <<>>))

builder_SinkEndCall ==
    /\ Ready("pretty", MaxSinkCalls)
    /\ \E ord \in Orders : Becomes(builder_End(Cur, ord), Call("End", <<>>, <<>>))

builder_SinkCharsCall ==
    /\ Ready("pretty", MaxSinkCalls)
    /\ \E ord \in Orders :
          Becomes(builder_Chars(Cur, Str("<"), ord), Call("Chars", <<>>, <<Str("<")>>))

SinkNext ==
    \/ SinkBreaks
    \/ SinkElementCall \/ SinkEndCall \/ SinkCharsCall \/ SinkCdataCall
    \/ SinkInlineCall \/ SinkEndInlineCall \/ SinkFlushCall
    \/ SinkInstructCall \/ SinkDoctypeCall
    \/ builder_SinkElementCall \/ builder_SinkEndCall \/ builder_SinkCharsCall

SpecSink == Init /\ [][SinkNext]_vars

-----------------------------------------------------------------------------
(* A caller that hands Element and Tag a text among their arguments, as      *)
(* TestChars does: Element("person", "Hello!", "name", "Joran").             *)

\* Argument lists of odd length: one, three and five arguments.  As Element
\* reads them: the text "<" alone; the text "k" with the pair j="<"; the text
\* "k" with the pairs k="j" and j="<".
TextArgs ==
    {<<Str("<")>>, <<K, J, Str("<")>>, <<K, K, J, J, Str("<")>>}

\* Argument lists of even length.
PairArgs == {<<>>}

\* The argument of Offset: the one that takes the depth below zero.
Lower == {-1}

ArgsElementCall ==
    /\ Ready("counter", MaxArgsCalls)
    /\ \E args \in TextArgs \cup PairArgs :
          Becomes(Element(Cur, Str("a"), args), Call("Element", Str("a"), args))

ArgsTagCall ==
    /\ Ready("counter", MaxArgsCalls)
    /\ \E args \in TextArgs \cup PairArgs :
          Becomes(Tag(Cur, Str("t"), args), Call("Tag", Str("t"), args))

ArgsCharsCall ==
    /\ Ready("counter", MaxArgsCalls)
    /\ Becomes(Chars(Cur, Str("<")), Call("Chars", <<>>, <<Str("<")>>))

ArgsEndCall ==
    /\ Ready("counter", MaxArgsCalls)
    /\ Becomes(End(Cur), Call("End", <<>>, <<>>))

ArgsInlineCall ==
    /\ Ready("counter", MaxArgsCalls)
    /\ Becomes(Inline(Cur), Call("Inline", <<>>, <<>>))

ArgsOffsetCall ==
    /\ Ready("counter", MaxArgsCalls)
    /\ \E delta \in Lower : Becomes(Offset(Cur, delta), CallDelta("Offset", delta))

builder_ArgsElementCall ==
    /\ Ready("pretty", MaxArgsCalls)
    /\ \E args \in TextArgs \cup PairArgs, ord1 \in Orders, ord2 \in Orders :
          Becomes(builder_Element(Cur, Str("a"), args, ord1, ord2),
                  Call("Element", Str("a"), args))

builder_ArgsTagCall ==
    /\ Ready("pretty", MaxArgsCalls)
    /\ \E args \in TextArgs \cup PairArgs, ord1 \in Orders, ord2 \in Orders :
          Becomes(builder_Tag(Cur, Str("t"), args, ord1, ord2), Call("Tag", Str("t"), args))

builder_ArgsCharsCall ==
    /\ Ready("pretty", MaxArgsCalls)
    /\ \E ord \in Orders :
          Becomes(builder_Chars(Cur, Str("<"), ord), Call("Chars", <<>>, <<Str("<")>>))

builder_ArgsEndCall ==
    /\ Ready("pretty", MaxArgsCalls)
    /\ \E ord \in Orders : Becomes(builder_End(Cur, ord), Call("End", <<>>, <<>>))

builder_ArgsPrettyCall ==
    /\ Ready("pretty", MaxArgsCalls)
    /\ \E on \in BOOLEAN : Becomes(builder_Pretty(Cur, on), CallOn("Pretty", on))

builder_ArgsOffsetCall ==
    /\ Ready("pretty", MaxArgsCalls)
    /\ \E delta \in Lower :
          Becomes(builder_Offset(Cur, delta), CallDelta("Offset", delta))

ArgsNext ==
    \/ ArgsElementCall \/ ArgsTagCall \/ ArgsCharsCall \/ ArgsEndCall
    \/ ArgsInlineCall \/ ArgsOffsetCall
    \/ builder_ArgsElementCall \/ builder_ArgsTagCall \/ builder_ArgsCharsCall
    \/ builder_ArgsEndCall \/ builder_ArgsPrettyCall \/ builder_ArgsOffsetCall

SpecArgs == Init /\ [][ArgsNext]_vars

-----------------------------------------------------------------------------
(* Reading the output back as markup, and the tree the calls describe *)

\* The key/value pairs of an argument list of even length.
PairsOf(args) == [i \in 1..(Len(args) \div 2) |-> <<args[2 * i - 1], args[2 * i]>>]

\* The pairs Element hands on to the attribute buffer: those with a name and
\* with a value that is not empty, or is Blank.
KeptPairs(pairs) ==
    SelectSeq(pairs, LAMBDA pr : s(pr[1]) # <<>> /\ (s(pr[2]) # <<>> \/ pr[2] = Blank))

\* The name-to-value mapping of a list of pairs, as the set of <<name, value as
\* it reads in an attribute position>>: a name given twice has its last value.
Mapping(pairs) ==
    {<<s(pairs[i][1]), attrEscaper(s(pairs[i][2]))>> : i \in
        {i \in 1..Len(pairs) : \A j \in (i + 1)..Len(pairs) : s(pairs[j][1]) # s(pairs[i][1])}}

Open(name, attrs) == [ev |-> "open", name |-> name, attrs |-> attrs]
Close(name) == [ev |-> "close", name |-> name, attrs |-> {}]

RECURSIVE CallTree(_, _, _)
\* The tree a properly nested sequence of Element and End calls describes, as
\* its sequence of open and close events; with all, every supplied pair counts,
\* else those Element hands on.
CallTree(cs, stack, all) ==
    IF cs = <<>> THEN <<>>
    ELSE LET c == Head(cs) IN
         IF c.op = "Element"
         THEN <<Open(c.name, Mapping(IF all THEN PairsOf(c.args)
                                            ELSE KeptPairs(PairsOf(c.args))))>>
                 \o CallTree(Tail(cs), Append(stack, c.name), all)
         ELSE <<Close(Last(stack))>> \o CallTree(Tail(cs), Front(stack), all)

\* The attributes a start tag carries, as a parser reads them.
TagAttrs(p) == {<<p.attrs[i][1], p.attrs[i][2]>> : i \in 1..Len(p.attrs)}

RECURSIVE OutTree(_)
\* The open and close events a parser reads from the output.
OutTree(o) ==
    IF o = <<>> THEN <<>>
    ELSE LET p == Head(o) IN
         (CASE p.kind = "start" /\ p.slash  -> <<Open(p.name, TagAttrs(p)), Close(p.name)>>
            [] p.kind = "start" /\ ~p.slash -> <<Open(p.name, TagAttrs(p))>>
            [] p.kind = "end"               -> <<Close(p.name)>>
            [] OTHER                        -> <<>>)
         \o OutTree(Tail(o))

\* No start tag carries a name twice.
NoDuplicateAttr(o) ==
    \A i \in 1..Len(o) : Cardinality({o[i].attrs[j][1] : j \in 1..Len(o[i].attrs)})
                            = Len(o[i].attrs)

\* C1 as stated: once every Element has been matched by an End, the output
\* read back as markup is the tree of the calls, each element carrying exactly
\* the name-to-value pairs supplied to it.
C1_RoundTripAllPairs ==
    elements = <<>> =>
        /\ OutTree(out) = CallTree(calls, <<>>, TRUE)
        /\ NoDuplicateAttr(out)

\* C1 (amended): once every Element has been matched by an End, the output
\* read back as markup is the tree of the calls, each element carrying exactly
\* the supplied pairs that have a non-empty name and a value that is non-empty
\* or Blank; a pair with an empty name or an empty value is not written.
C1_RoundTrip ==
    elements = <<>> =>
        /\ OutTree(out) = CallTree(calls, <<>>, FALSE)
        /\ NoDuplicateAttr(out)

\* A parent with two children, one of them with attributes, has been written.
C1_Witness ==
    /\ elements = <<>>
    /\ Len(calls) = 6
    /\ \E i, j, k \in 1..Len(out) :
          /\ i < j /\ j < k
          /\ out[i].kind = "start" /\ ~out[i].slash /\ Len(out[i].attrs) = 2
          /\ out[j].kind = "start" /\ out[j].slash /\ out[j].name # out[i].name
          /\ out[k].kind = "end" /\ out[k].name = out[i].name

-----------------------------------------------------------------------------
(* When the pending start tag is written *)

\* The pieces written to the sink since o.
Written(o, o2) == SubSeq(o2, Len(o) + 1, Len(o2))

\* o2 holds, after o, the start tag of the element that is pending in b.
FlushedIn(b, o2) ==
    /\ b.buildingElement
    /\ b.ids # <<>>
    /\ \E i \in (Len(b.out) + 1)..Len(o2) : o2[i].kind = "start" /\ o2[i].id = Last(b.ids)

\* This step wrote the start tag that was pending before it.
WritesPending == FlushedIn(Cur, out')

\* The method called in this step.
Op == Last(calls').op

\* C2 as stated: in the inline-counter builder the pending start tag is written
\* only during an Element, Chars, CharsNoEscape, Cdata or End call (for Tag:
\* by its Element, not by its inline entry), and Attr writes nothing.
C2_FlushOnlyWhenForced ==
    [][variant = "counter" =>
         /\ WritesPending =>
               \/ Op \in {"Element", "Chars", "CharsNoEscape", "Cdata", "End"}
               \/ Op = "Tag" /\ ~FlushedIn(Cur, Inline(Cur).out)
         /\ Op = "Attr" => out' = out]_vars

\* C2 (amended): in the inline-counter builder the pending start tag is written
\* only during an Element, Chars, CharsNoEscape, Cdata, End or Flush call, or
\* during an Inline call made at inline depth 0 (the one Tag begins with
\* included); Attr, EndInline, Instruct, Doctype, Offset, Indent, Empty, and
\* Inline at another depth, never cause it, and Attr writes nothing.
C2_FlushPoints ==
    [][variant = "counter" =>
         /\ WritesPending =>
               \/ Op \in {"Element", "Chars", "CharsNoEscape", "Cdata", "End", "Flush"}
               \/ Op = "Inline" /\ inline = 0
               \/ Op = "Tag" /\ (inline = 0 <=> FlushedIn(Cur, Inline(Cur).out))
         /\ Op = "Attr" => out' = out]_vars

\* Element then Inline: the start tag of the element has been written by Inline.
C2_Witness ==
    /\ variant = "counter"
    /\ Len(calls) = 2
    /\ calls[1].op = "Element"
    /\ calls[2].op = "Inline"
    /\ \E i \in 1..Len(out) : out[i].kind = "start" /\ out[i].id = 1

\* This step is a call of End.
EndCalled == Op = "End" /\ calls' # calls

\* C3: when End is called while the innermost element is still pending, the
\* call writes exactly one piece, a start tag of that element written with
\* close set (ending in " />", or in ">" after Empty(false)) and carrying every
\* buffered attribute; the stack is popped and the pending flag cleared; and no
\* closing tag is ever written for an element whose only tag was written so.
C3_EndOnPending ==
    /\ [][(variant = "counter" /\ EndCalled /\ buildingElement) =>
            /\ Len(Written(out, out')) = 1
            /\ LET p == Last(out')
               IN /\ p.kind = "start" /\ p.close /\ p.slash = empty
                  /\ p.name = Last(elements) /\ p.id = Last(ids)
                  /\ p.attrs = AttrList(Cur)
            /\ elements' = Front(elements)
            /\ ~buildingElement']_vars
    /\ [](\A i, j \in 1..Len(out) :
            ~(/\ out[i].kind = "start" /\ out[i].close
              /\ out[j].kind = "end" /\ out[j].id = out[i].id))

\* C4: whenever End is called on a non-empty stack whose innermost element
\* has already been flushed, the call writes one closing tag, bearing the name
\* of the most recently opened element not yet closed (the top of the stack);
\* exactly that entry is popped and the entries below it are unchanged.
C4_EndOnFlushed ==
    [][(EndCalled /\ ~buildingElement /\ elements # <<>>) =>
          /\ Len(Written(out, out')) = 1
          /\ LET p == Last(out')
             IN p.kind = "end" /\ p.name = Last(elements) /\ p.id = Last(ids)
          /\ elements' = Front(elements)]_vars

\* The number of calls of method op made so far.
Made(op) == Cardinality({i \in 1..Len(calls) : calls[i].op = op})

\* The methods C5 says never change the stack (Instruct is called through
\* InstructXML).
StackKeepers ==
    {"Attr", "Chars", "CharsNoEscape", "Cdata", "Inline", "EndInline",
     "InstructXML", "Doctype", "Offset", "Indent", "Empty", "Pretty"}

\* End was called on an empty stack: the call panics, on the stack access or
\* in doIndent before it, so it is the last call and the stack is still empty.
EndOnEmptyStack ==
    /\ calls # <<>> /\ Last(calls).op = "End"
    /\ panic # "" /\ elements = <<>>

\* C5: after any sequence of calls in which End is never called on an empty
\* stack, the length of the open-element stack is the number of Element calls
\* minus the number of End calls made so far, a Tag call counting as one of
\* each; and a call of Attr, Chars, CharsNoEscape, Cdata, Inline, EndInline,
\* Instruct, Doctype or a configuration setter never changes the stack.
C5_StackDepth ==
    /\ [](~EndOnEmptyStack => Len(elements) = Made("Element") - Made("End"))
    /\ [][(calls' # calls /\ Op \in StackKeepers) => elements' = elements]_vars

RECURSIVE FirstSet(_)
\* The names of the pairs q, each once, in the order in which they first occur.
FirstSet(q) ==
    IF q = <<>> THEN <<>>
    ELSE LET f == FirstSet(Front(q))
             n == Last(q)[1]
         IN IF \E i \in 1..Len(f) : f[i] = n THEN f ELSE Append(f, n)

\* The value of the last pair of q that has name n.
LastSet(q, n) ==
    LET i == CHOOSE i \in 1..Len(q) :
                 /\ q[i][1] = n
                 /\ \A j \in (i + 1)..Len(q) : q[j][1] # n
    IN q[i][2]

\* C6: in the inline-counter builder, a start tag carries each name stored for
\* it (by an Attr call, or by Element for a pair it hands to Attr) exactly once,
\* with the last value stored for the name, at the position where the name was
\* first stored among the other names; so it is when a name was stored more
\* than once before the start tag was written.
C6_LastValueFirstPosition ==
    \A i \in 1..Len(out) :
        (variant = "counter" /\ out[i].kind = "start") =>
            LET names == FirstSet(out[i].given) IN
            /\ Len(out[i].attrs) = Len(names)
            /\ \A k \in 1..Len(names) :
                   out[i].attrs[k] = <<names[k], attrEscaper(LastSet(out[i].given, names[k]))>>

\* Element("a", k, v, j, w, k, y), then the start tag: k="y" j="w".
C6_Witness ==
    /\ variant = "counter"
    /\ \E i \in 1..Len(out) :
           /\ out[i].kind = "start"
           /\ out[i].given = <<<<K, Str("v"), TRUE>>, <<J, Str("w"), TRUE>>,
                              <<K, Str("y"), TRUE>>>>
           /\ out[i].attrs = <<<<K, Str("y")>>, <<J, Str("w")>>>>

\* The place of name n in the order in which the pairs q first name it.
PlaceIn(q, n) == CHOOSE k \in 1..Len(FirstSet(q)) : FirstSet(q)[k] = n

\* C7: in src/builder.go the attributes of a start tag are written in the order
\* in which they were supplied: of two attributes of a tag, the one written
\* first is the one supplied first (so the bytes written are a function of the
\* calls alone).
C7_SuppliedOrder ==
    \A i \in 1..Len(out) :
        (variant = "pretty" /\ out[i].kind = "start") =>
            \A a, b \in 1..Len(out[i].attrs) :
                a < b => PlaceIn(out[i].given, out[i].attrs[a][1])
                            < PlaceIn(out[i].given, out[i].attrs[b][1])

\* This step is a call of Attr made while no element is pending.
AttrIdle == calls' # calls /\ Op = "Attr" /\ ~buildingElement

\* Pair k of q is the last of q to set its name.
IsLast(q, k) == \A j \in (k + 1)..Len(q) : q[j][1] # q[k][1]

\* The start tag p carries the attribute as pair k of p.given set it.
Carries(p, k) ==
    /\ IsLast(p.given, k)
    /\ \E a \in 1..Len(p.attrs) :
           p.attrs[a] = <<p.given[k][1], attrEscaper(p.given[k][2])>>

\* C8 as stated: a call of Attr made while no element is pending is a no-op,
\* it changes no builder state (and writes nothing), and no start tag written
\* afterwards carries the attribute.
C8_AttrNoOp ==
    /\ [][AttrIdle =>
            /\ out' = out
            /\ UNCHANGED <<buildingElement, attributes, attrnames, elements,
                           indentString, indent, offset, empty, inline, pretty>>]_vars
    /\ [](\A i \in 1..Len(out) : out[i].kind = "start" =>
             \A k \in 1..Len(out[i].given) :
                 ~out[i].given[k][3] => ~Carries(out[i], k))

\* C8 (amended): a call of Attr made while no element is pending writes
\* nothing and changes no builder state but the attribute buffer, where it
\* stores the pair (the inline-counter builder listing the name in attrnames
\* if the buffer did not hold it); the next start tag written carries the
\* attribute, unless the name is set again before (src/builder.go never writes
\* an attribute whose name or value is empty).
C8_AttrStored ==
    /\ [][AttrIdle =>
            LET c == Last(calls') IN
            /\ out' = out /\ panic' = ""
            /\ UNCHANGED <<buildingElement, elements, indentString, indent,
                           offset, empty, inline, pretty>>
            /\ attributes' = [attributes EXCEPT ![c.name] = s(c.args[1])]
            /\ attrnames' = IF variant = "counter" /\ attributes[c.name] = Absent
                            THEN Append(attrnames, c.name)
                            ELSE attrnames]_vars
    /\ [](\A i \in 1..Len(out) : out[i].kind = "start" =>
             \A k \in 1..Len(out[i].given) :
                 (/\ ~out[i].given[k][3]
                  /\ IsLast(out[i].given, k)
                  /\ variant = "pretty" =>
                         out[i].given[k][1] # <<>> /\ out[i].given[k][2] # <<>>)
                     => Carries(out[i], k))

\* Attr(k, x) with no element pending, and a later start tag that carries k="x".
C8_Witness ==
    /\ calls # <<>> /\ calls[1].op = "Attr"
    /\ \E i \in 1..Len(out) :
           /\ out[i].kind = "start"
           /\ \E k \in 1..Len(out[i].given) :
                  ~out[i].given[k][3] /\ Carries(out[i], k)

\* Name n is set in the pairs q only by pairs stored while an element was
\* pending: n is an attribute of the element itself.
OfElement(q, n) ==
    /\ \E m \in 1..Len(q) : q[m][1] = n
    /\ \A m \in 1..Len(q) : q[m][1] = n => q[m][3]

\* C9: an attribute set by Attr while no element is being built (and not set
\* again) is written on the start tag of the next element, ahead of the
\* attributes set for that element itself.
C9_KeptAndAhead ==
    \A i \in 1..Len(out) : out[i].kind = "start" =>
        \A k \in 1..Len(out[i].given) :
            (~out[i].given[k][3] /\ IsLast(out[i].given, k)) =>
                /\ Carries(out[i], k)
                /\ \A a, b \in 1..Len(out[i].attrs) :
                       (/\ out[i].attrs[a][1] = out[i].given[k][1]
                        /\ OfElement(out[i].given, out[i].attrs[b][1]))
                           => a < b

\* The markup tokens among the pieces q, without their whitespace: the
\* indentation and newline of a piece, and the pieces that are only that.
Tokens(q) ==
    LET m == SelectSeq(q, LAMBDA p : p.kind \notin {"indent", "nl"})
    IN [i \in 1..Len(m) |-> <<m[i].kind, m[i].name, m[i].attrs, m[i].data, m[i].slash>>]

\* The lists of attribute pairs among the argument lists.
PairLists == {args \in ElementArgs : Len(args) % 2 = 0}

\* Element(element, args...) immediately followed by End().
ElementEnd(b, element, args) ==
    LET e == Element(b, element, args) IN
    IF e.panic # "" THEN e ELSE End(e)

builder_ElementEnd(b, element, args, ord1, ord2) ==
    LET e == builder_Element(b, element, args, ord1, ord2) IN
    IF e.panic # "" THEN e ELSE builder_End(e, ord2)

\* From the current state, t and e wrote the same markup tokens, and both
\* returned, leaving the same open-element stack, pending flag and attribute
\* buffer, or both panicked.
SameEffect(t, e) ==
    /\ Tokens(Written(out, t.out)) = Tokens(Written(out, e.out))
    /\ (t.panic = "") <=> (e.panic = "")
    /\ t.panic = "" =>
          /\ t.elements = e.elements
          /\ t.buildingElement = e.buildingElement
          /\ t.attributes = e.attributes
          /\ t.attrnames = e.attrnames

\* C10: in every builder state on which a call can be made, for every element
\* name and list of attribute pairs, Tag(name, pairs...) writes the same markup
\* tokens (ignoring whitespace) as Element(name, pairs...) followed by End(),
\* and leaves the same open-element stack, pending flag and attribute buffer
\* (in src/builder.go: for one and the same order of the ranges over the map).
C10_TagIsElementEnd ==
    panic = "" =>
        \A element \in Names \cup TagNames, args \in PairLists :
            IF variant = "counter"
            THEN SameEffect(Tag(Cur, element, args), ElementEnd(Cur, element, args))
            ELSE \A ord1, ord2 \in Orders :
                     SameEffect(builder_Tag(Cur, element, args, ord1, ord2),
                                builder_ElementEnd(Cur, element, args, ord1, ord2))

-----------------------------------------------------------------------------
(* Indentation and newlines *)

\* This step is a call of method op.
Called(op) == calls' # calls /\ Op = op

\* What a reader of the sink sees of the pieces q: the kind of each piece, the
\* indentation before its markup, its name, its text and whether a newline
\* follows it.
Look(q) == [i \in 1..Len(q) |-> <<q[i].kind, q[i].ind, q[i].name, q[i].data, q[i].nl>>]

\* The pieces among q that hold at least one byte.
Seen(q) == SelectSeq(q, LAMBDA t : t[2] # <<>> \/ t[4] # <<>> \/ t[5]
                                      \/ t[1] \notin {"text", "indent"})

\* The indent unit repeated depth times, clamped at zero repetitions.
Prefix(unit, depth) == Repeat(unit, depth)

\* The one line of Tag(element, text, ...) written for a child of a stack of
\* n open elements: the prefix, the start tag, the escaped text, the closing
\* tag and a newline, nothing between them.
TagLine(n, element, text) ==
    Seen(<< <<"indent", Prefix(indent, n + offset), <<>>, <<>>, FALSE>>,
            <<"start", <<>>, element, <<>>, FALSE>>,
            <<"text", <<>>, <<>>, htmlEscaper(s(text)), FALSE>>,
            <<"end", <<>>, element, <<>>, FALSE>>,
            <<"nl", <<>>, <<>>, <<>>, TRUE>> >>)

\* C11: Tag(name, text, pairs...) called at inline depth 0 in the inline-counter
\* builder writes, after the start tag of the pending parent if there is one,
\* exactly one line: the indentation prefix of a child of the innermost open
\* element, the start tag, the escaped text, the closing tag and one newline,
\* with no newline and no indentation between the start tag and the closing tag.
C11_TagOneLine ==
    [][(variant = "counter" /\ Called("Tag") /\ inline = 0
          /\ Len(Last(calls').args) % 2 = 1) =>
          LET c == Last(calls')
              w == Written(out, out')
              parent == IF buildingElement THEN 1 ELSE 0
          IN /\ Len(w) >= parent
             /\ buildingElement =>
                   /\ w[1].kind = "start" /\ w[1].id = Last(ids)
                   /\ ~w[1].close /\ w[1].nl
             /\ Look(SubSeq(w, parent + 1, Len(w)))
                   = TagLine(Len(elements), c.name, c.args[1])]_vars

\* The sequences of at most MaxContent content calls.
Contents == UNION {[1..n -> ContentCalls] : n \in 0..MaxContent}

\* The calls cs wrapped in Inline ... EndInline, and in Inline, Inline ...
\* EndInline, EndInline.
Wrapped(cs) == <<Call("Inline", <<>>, <<>>)>> \o cs \o <<Call("EndInline", <<>>, <<>>)>>

\* The pieces q hold no indentation and no newline.
Plain(q) ==
    \A i \in 1..Len(q) : q[i].kind \notin {"indent", "nl"} /\ q[i].ind = <<>> /\ ~q[i].nl

\* C12: in the inline-counter builder the inline depth is a counter.  While no
\* call has panicked it is the number of Inline calls minus the number of
\* EndInline calls made (so it is 1 after two Inline calls and one EndInline
\* call); while it is above 0, Element, Chars, Cdata and End write no
\* indentation and no newline; and from every state where it is not negative,
\* content wrapped in Inline, Inline ... EndInline, EndInline writes exactly
\* what the same content writes wrapped in Inline ... EndInline.
C12_InlineIsCounter ==
    /\ []((variant = "counter" /\ panic = "") =>
             inline = Made("Inline") - Made("EndInline"))
    /\ [][(variant = "counter" /\ inline > 0
             /\ Op \in {"Element", "Chars", "Cdata", "End"}) =>
                Plain(Written(out, out'))]_vars
    /\ []((variant = "counter" /\ panic = "" /\ inline >= 0) =>
             \A cs \in Contents :
                 Run(Cur, Wrapped(Wrapped(cs))).out = Run(Cur, Wrapped(cs)).out)

\* Inline, Inline, EndInline, then Chars: the text is written with no
\* indentation and no newline.
C12_Witness ==
    /\ Len(calls) = 4
    /\ calls[1].op = "Inline" /\ calls[2].op = "Inline" /\ calls[3].op = "EndInline"
    /\ calls[4].op = "Chars"
    /\ inline = 1
    /\ Last(out).kind = "text" /\ Last(out).ind = <<>> /\ ~Last(out).nl

\* The indentation prefix alone, as a reader of the sink sees it.
PrefixAlone(n) == Seen(<< <<"indent", Prefix(indent, n + offset), <<>>, <<>>, FALSE>> >>)

\* A newline alone.
NewlineAlone == << <<"nl", <<>>, <<>>, <<>>, TRUE>> >>

\* C13: in the inline-counter builder, Inline writes the indentation prefix
\* (the indent unit repeated open-element-count + offset times), after the
\* start tag of the pending element if there is one, exactly when the inline
\* depth was 0 before the call, and EndInline writes exactly one newline
\* exactly when the inline depth becomes 0; Inline at another depth and
\* EndInline ending at another depth write nothing.
C13_InlineEdges ==
    /\ [][(variant = "counter" /\ Called("Inline")) =>
            LET w == Written(out, out')
                rest == IF w # <<>> /\ w[1].kind = "start" THEN Tail(w) ELSE w
            IN Look(rest) = IF inline = 0 THEN PrefixAlone(Len(elements)) ELSE <<>>]_vars
    /\ [][(variant = "counter" /\ Called("EndInline")) =>
            Look(Written(out, out')) = IF inline' = 0 THEN NewlineAlone ELSE <<>>]_vars

\* C14: in the inline-counter builder, while the inline depth is above 0, no
\* call of Element, Attr, Chars, CharsNoEscape, Cdata, End, Tag or Inline, and
\* no call of EndInline that leaves the depth above 0, writes any indentation
\* or any newline; so a Tag inside an inline region writes neither a leading
\* indentation nor a trailing newline.
C14_InlineWritesNoWhitespace ==
    [][(/\ variant = "counter" /\ inline > 0 /\ calls' # calls
        /\ \/ Op \in {"Element", "Attr", "Chars", "CharsNoEscape", "Cdata", "End",
                      "Tag", "Inline"}
           \/ Op = "EndInline" /\ inline' > 0) =>
          Plain(Written(out, out'))]_vars

\* Inline, Element, then Tag with a text: the Tag wrote its start tag, text and
\* closing tag, and the depth is 1 again.
C14_Witness ==
    /\ variant = "counter" /\ inline = 1 /\ panic = ""
    /\ Len(calls) = 3
    /\ calls[1].op = "Inline" /\ calls[2].op = "Element" /\ calls[3].op = "Tag"
    /\ Len(out) >= 3
    /\ Last(out).kind = "end" /\ Last(out).name = calls[3].name
    /\ out[Len(out) - 1].kind = "text"

\* The number of open elements when the tag p of this step was written,
\* counting the element of p: its place in the stack before or after the step,
\* or, for the element Tag pushes and pops, the place above the stack.
OpenAt(p) ==
    IF \E n \in 1..Len(ids) : ids[n] = p.id
    THEN CHOOSE n \in 1..Len(ids) : ids[n] = p.id
    ELSE IF \E n \in 1..Len(ids') : ids'[n] = p.id
         THEN CHOOSE n \in 1..Len(ids') : ids'[n] = p.id
         ELSE Len(ids) + 1

\* The tag p of this step was written in block mode: in the inline-counter
\* builder at inline depth 0, where a newline follows the tag; in
\* src/builder.go with pretty on and outside Tag.
InBlockMode(p) ==
    /\ p.kind \in {"start", "end"}
    /\ IF variant = "counter" THEN p.nl ELSE pretty /\ Op # "Tag"

\* C15: in block mode, with the indent unit unchanged since construction,
\* whenever n - 1 + offset is not negative the indentation written before a
\* start tag, a self-closing tag or a closing tag is the indent unit repeated
\* n - 1 + offset times, n being the number of open elements counting the
\* element written or closed.
C15_BlockIndentation ==
    [][(calls' # calls /\ Made("Indent") = 0) =>
          \A i \in (Len(out) + 1)..Len(out') :
              LET p == out'[i] IN
              (InBlockMode(p) /\ OpenAt(p) - 1 + offset >= 0) =>
                  p.ind = Repeat(indent, OpenAt(p) - 1 + offset)]_vars

\* Element, Element, End with the unit of New: the inner element is written as
\* a self-closing tag after one indent unit.
C15_Witness ==
    /\ Made("Indent") = 0 /\ offset = 0 /\ Len(elements) = 1
    /\ Len(out) = 2
    /\ out[2].kind = "start" /\ out[2].close /\ out[2].nl
    /\ out[2].ind = <<" ", " ">>

\* C16: when the indentation depth computed for a line (open-element count - 1
\* + offset) is negative, as after Offset with a negative delta or for a line
\* written with no element open, the call completes normally, strings.Repeat
\* never panicking on a negative count, and the indentation written before a
\* tag at a negative depth is empty.
C16_NegativeDepthClamped ==
    /\ [](panic # "strings: negative Repeat count")
    /\ [][calls' # calls =>
            \A i \in (Len(out) + 1)..Len(out') :
                LET p == out'[i] IN
                (InBlockMode(p) /\ OpenAt(p) - 1 + offset < 0) => p.ind = <<>>]_vars

\* The call that pushed the element numbered id: Element and Tag push one
\* element each.
PushCall(id) ==
    CHOOSE i \in 1..Len(calls) :
        /\ calls[i].op \in {"Element", "Tag"}
        /\ Cardinality({j \in 1..i : calls[j].op \in {"Element", "Tag"}}) = id

RECURSIVE InlineBalanced(_, _)
\* Among the calls cs, made from inline depth d, every EndInline matches an
\* earlier Inline and every Inline a later EndInline.
InlineBalanced(cs, d) ==
    IF cs = <<>> THEN d = 0
    ELSE LET c == Head(cs) IN
         IF c.op = "Inline" THEN InlineBalanced(Tail(cs), d + 1)
         ELSE IF c.op = "EndInline" THEN d > 0 /\ InlineBalanced(Tail(cs), d - 1)
         ELSE InlineBalanced(Tail(cs), d)

\* Piece i of o begins a line: a tag or a text written in block mode, or the
\* prefix Inline writes.
BeginsLine(o, i) ==
    \/ o[i].kind = "indent"
    \/ o[i].kind \in {"start", "end", "text", "cdata"} /\ o[i].nl

\* How many elements opened after piece from of o are still open at piece i, the
\* element a closing tag closes not counted.
Under(o, from, i) ==
    Cardinality({k \in (from + 1)..(i - 1) : o[k].kind = "start" /\ ~o[k].close})
        - Cardinality({k \in (from + 1)..i : o[k].kind = "end"})

\* C17: in the inline-counter builder, when End closes an element whose start
\* tag was written in block mode as an open tag (it received a child or a
\* text), with the calls made since its Element call balanced and none of them
\* an Offset or Indent call, the closing tag is written after the same
\* indentation as the start tag, and every line of a child written between
\* them begins with that indentation and one indent unit more.
C17_ClosingMatchesOpening ==
    [][(/\ variant = "counter" /\ EndCalled
        /\ ~buildingElement /\ elements # <<>> /\ inline = 0
        /\ \E st \in 1..Len(out) :
              out[st].kind = "start" /\ out[st].id = Last(ids) /\ out[st].nl
        /\ LET since == SubSeq(calls, PushCall(Last(ids)) + 1, Len(calls))
           IN /\ InlineBalanced(since, 0)
              /\ \A j \in 1..Len(since) : since[j].op \notin {"Offset", "Indent"}) =>
          LET st == CHOOSE st \in 1..Len(out) :
                        out[st].kind = "start" /\ out[st].id = Last(ids)
          IN /\ Len(out') = Len(out) + 1
             /\ Last(out').kind = "end" /\ Last(out').id = Last(ids)
             /\ Last(out').ind = out[st].ind
             /\ \A i \in (st + 1)..Len(out) :
                    (BeginsLine(out, i) /\ Under(out, st, i) = 0) =>
                        out[i].ind = out[st].ind \o indent]_vars

\* The pieces w begin with the start tag of the element pending before this
\* step, written as an open tag, followed by a newline exactly if block.
OpensPending(w, block) ==
    /\ w # <<>>
    /\ w[1].kind = "start" /\ w[1].id = Last(ids) /\ w[1].name = Last(elements)
    /\ ~w[1].close /\ ~w[1].slash
    /\ w[1].nl = block

\* C18: in the inline-counter builder, Chars(v) called at inline depth 0 with
\* at least one element open writes the pending start tag, if there is one, as
\* an open tag followed by a newline, and then one line: the indentation of the
\* innermost open element and one indent unit more, the escaped value and a
\* newline.  Called at an inline depth above 0 it writes only the open tag (if
\* one is pending) and the escaped value, with no indentation and no newline.
C18_CharsLine ==
    [][(/\ variant = "counter" /\ Called("Chars")
        /\ inline > 0 \/ (inline = 0 /\ elements # <<>>)) =>
          LET w == Written(out, out')
              text == IF buildingElement THEN Tail(w) ELSE w
              value == htmlEscaper(s(Last(calls').args[1]))
              lead == IF inline = 0
                      THEN Prefix(indent, Len(elements) - 1 + offset) \o indent
                      ELSE <<>>
          IN /\ buildingElement => OpensPending(w, inline = 0)
             /\ (buildingElement /\ inline > 0) => w[1].ind = <<>>
             /\ Look(text) = Seen(<< <<"text", lead, <<>>, value, inline = 0>> >>)]_vars

\* The builder b without what it has written.
StateOf(b) == [b EXCEPT !.out = <<>>]

\* C19: in the inline-counter builder, in every state in which a call can be
\* made, Cdata(v) does what Chars(v) does but for the payload: both panic or
\* both return, they leave the same builder state, they write the same pieces
\* before the payload (the pending start tag, flushed the same way), and the
\* payload has the same leading indentation and the same trailing newline or
\* lack of it; Cdata writes v verbatim in a CDATA section where Chars writes v
\* escaped.
C19_CdataMirrorsChars ==
    (variant = "counter" /\ panic = "") =>
        \A v \in Texts :
            LET c == Cdata(Cur, v)
                h == Chars(Cur, v)
            IN /\ StateOf(c) = StateOf(h)
               /\ Len(c.out) = Len(h.out)
               /\ c.panic # "" => c.out = h.out
               /\ c.panic = "" =>
                     /\ Front(c.out) = Front(h.out)
                     /\ Len(c.out) > Len(out)
                     /\ Last(c.out).kind = "cdata" /\ Last(h.out).kind = "text"
                     /\ Last(c.out).data = s(v) /\ Last(h.out).data = htmlEscaper(s(v))
                     /\ Last(c.out).ind = Last(h.out).ind
                     /\ Last(c.out).nl = Last(h.out).nl

\* Element, then Cdata at inline depth 0: the open tag on its line, then the
\* section on a line of its own, one indent unit in.
C19_Witness ==
    /\ variant = "counter" /\ panic = ""
    /\ Len(calls) = 2 /\ calls[1].op = "Element" /\ calls[2].op = "Cdata"
    /\ Len(out) = 2
    /\ out[1].kind = "start" /\ out[1].nl
    /\ out[2].kind = "cdata" /\ out[2].ind = indent /\ out[2].nl

\* C20: in src/builder.go, while pretty is off (Pretty(false) was the last
\* Pretty call), no call of Element, Attr, Chars, CharsNoEscape, Cdata, Tag or
\* End writes any indentation or any newline.
C20_NotPrettyNoWhitespace ==
    [][(/\ variant = "pretty" /\ ~pretty /\ calls' # calls
        /\ Op \in {"Element", "Attr", "Chars", "CharsNoEscape", "Cdata", "Tag", "End"}) =>
          Plain(Written(out, out'))]_vars

-----------------------------------------------------------------------------
(* Configuration, contract violations and argument conventions *)

\* What the last Empty call asked for, or the default when none was made.
UseEmpty ==
    LET made == {i \in 1..Len(calls) : calls[i].op = "Empty"} IN
    IF made = {} THEN TRUE
    ELSE calls[CHOOSE i \in made : \A j \in made : j <= i].on

\* C21: in the inline-counter builder, End on a pending element writes the
\* start tag of that element with its buffered attributes, closed by ">" with
\* no slash when the last Empty call was Empty(false) and by " />" when it was
\* Empty(true) or none was made; it pops the stack; and no closing tag is ever
\* written for that element.
C21_EmptyStyle ==
    /\ [][(variant = "counter" /\ EndCalled /\ buildingElement) =>
            /\ Len(Written(out, out')) = 1
            /\ LET p == Last(out')
               IN /\ p.kind = "start" /\ p.id = Last(ids)
                  /\ p.attrs = AttrList(Cur)
                  /\ p.slash = UseEmpty
            /\ elements' = Front(elements)]_vars
    /\ [](\A i, j \in 1..Len(out) :
            (out[i].kind = "start" /\ out[i].close) =>
                ~(out[j].kind = "end" /\ out[j].id = out[i].id))

\* The processing instruction InstructXML writes, read as markup.
XMLDeclaration ==
    [name |-> <<"x", "m", "l">>,
     attrs |-> <<<<Str("version"), Str("1.0")>>, <<Str("encoding"), Str("UTF-8")>>>>]

\* C22: in every builder state of either builder (any stack, an element
\* pending or not, any inline depth, pretty on or off) a call of Instruct
\* (made through InstructXML) or of Doctype writes, during the call, its
\* construct and nothing else, with no indentation and one newline after it.
C22_InstructDoctypeLine ==
    [][(calls' # calls /\ Op \in {"InstructXML", "Doctype"}) =>
          /\ Len(Written(out, out')) = 1
          /\ LET p == Last(out')
             IN /\ p.ind = <<>> /\ p.nl
                /\ Op = "InstructXML" =>
                      /\ p.kind = "pi"
                      /\ p.name = XMLDeclaration.name
                      /\ p.attrs = XMLDeclaration.attrs
                /\ Op = "Doctype" =>
                      p.kind = "doctype" /\ p.data = Last(calls').args[1]]_vars

\* Inline, Element, then InstructXML: the instruction is on a line of its own
\* although the inline depth is 1 and an element is pending.
C22_Witness ==
    /\ variant = "counter" /\ panic = ""
    /\ Len(calls) = 3
    /\ calls[1].op = "Inline" /\ calls[2].op = "Element" /\ calls[3].op = "InstructXML"
    /\ inline = 1 /\ buildingElement
    /\ Len(out) = 1 /\ out[1].kind = "pi" /\ out[1].nl

OnlyElementEnd == \A i \in 1..Len(calls) : calls[i].op \in {"Element", "End"}

\* C24: whatever sequence of Element and End calls is made, with more End
\* calls than Element calls or with elements left open, every call returns:
\* none stops with a run-time panic.
C24_NeverCrashes == OnlyElementEnd => panic = ""

\* C25: a call during which a write to the sink failed reports the failure.
\* The methods return the builder and nothing else, so the one report a call
\* can make is to stop with a panic: no call that lost a write returns
\* normally.
C25_WriteFailureReported ==
    [][lost' > lost => panic' # ""]_vars

\* The builder after Offset, Indent, Pretty or Empty, of the variant of b.
SetOffset(b, d) == IF b.variant = "counter" THEN Offset(b, d) ELSE builder_Offset(b, d)
SetIndent(b, u) == IF b.variant = "counter" THEN Indent(b, u) ELSE builder_Indent(b, u)

\* Indent, Empty and Pretty called twice with one argument leave the builder
\* as one call does, and write nothing.
SettersRepeat ==
    /\ \A u \in Units :
          /\ SetIndent(SetIndent(Cur, u), u) = SetIndent(Cur, u)
          /\ SetIndent(Cur, u).out = out
    /\ variant = "counter" =>
          \A e \in BOOLEAN :
              /\ Empty(Empty(Cur, e), e) = Empty(Cur, e)
              /\ Empty(Cur, e).out = out
    /\ variant = "pretty" =>
          \A on \in BOOLEAN :
              /\ builder_Pretty(builder_Pretty(Cur, on), on) = builder_Pretty(Cur, on)
              /\ builder_Pretty(Cur, on).out = out

\* C26 as stated: in every builder state and for every argument, Offset,
\* Indent, Pretty or Empty called twice in a row leaves the builder in the
\* state one call leaves it in (so that what is written afterwards is the
\* same), and none of them writes to the sink.
C26_SettersIdempotent ==
    /\ SettersRepeat
    /\ \A d \in Deltas :
          /\ SetOffset(SetOffset(Cur, d), d) = SetOffset(Cur, d)
          /\ SetOffset(Cur, d).out = out

\* C26 (amended): in every builder state, Indent, Pretty and Empty are
\* idempotent setters, and Offset adds its argument to the offset: two calls
\* of Offset(d) leave the offset 2d higher, changing nothing else, which is the
\* state one call leaves only when d = 0.  None of the four writes to the sink.
C26_SettersAndOffset ==
    /\ SettersRepeat
    /\ \A d \in Deltas :
          /\ SetOffset(SetOffset(Cur, d), d) = [Cur EXCEPT !.offset = offset + 2 * d]
          /\ SetOffset(Cur, d) = [Cur EXCEPT !.offset = offset + d]

\* Offset(1) twice: the offset is 2.
C26_Witness ==
    /\ Len(calls) = 3
    /\ calls[1].op = "Offset" /\ calls[1].delta = 1
    /\ calls[2].op = "Offset" /\ calls[2].delta = 1
    /\ calls[3].op = "Element"
    /\ offset = 2 /\ out = <<>> /\ panic = ""

\* str is the unit u repeated some number of times.
Repeats(str, u) == \E k \in 0..Len(str) : str = Repeat(u, k)

\* C27: once Indent has been called, the indentation of every piece written is
\* made of repetitions of the unit given by the last Indent call, and of
\* nothing else: no unit configured earlier appears in it.
C27_IndentImmediate ==
    [][Made("Indent") > 0 =>
          \A i \in (Len(out) + 1)..Len(out') : Repeats(out'[i].ind, indent)]_vars

-----------------------------------------------------------------------------
(* The text argument of Element and Tag *)

\* Element with the pairs of args alone, then Chars with the text of args.
ElementChars(b, element, args) ==
    LET e == Element(b, element, Tail(args)) IN
    IF e.panic # "" THEN e ELSE Chars(e, args[1])

builder_ElementChars(b, element, args, ord1, ord2) ==
    LET e == builder_Element(b, element, Tail(args), ord1, ord2) IN
    IF e.panic # "" THEN e ELSE builder_Chars(e, args[1], ord2)

\* b is the builder a returning Element(element, text, pairs...) leaves when
\* called on the builder Cur: the element is open and no longer pending, its
\* start tag was written as an open tag and the text after it, escaped once;
\* z is the builder a following End leaves.
OpenWithText(b, element, text, z) ==
    /\ ~b.buildingElement
    /\ b.elements = Append(elements, element)
    /\ Len(b.out) >= Len(out) + 2
    /\ LET st == b.out[Len(b.out) - 1]
           tx == Last(b.out)
       IN /\ st.kind = "start" /\ st.name = element /\ ~st.slash /\ ~st.close
          /\ tx.kind = "text" /\ tx.data = htmlEscaper(s(text))
    /\ z.panic = ""
    /\ Len(z.out) = Len(b.out) + 1
    /\ Last(z.out).kind = "end" /\ Last(z.out).name = element
    /\ z.elements = elements

\* C28: in every builder state on which a call can be made, Element called
\* with a text and attribute pairs leaves exactly the builder and the sink that
\* Element called with those pairs, followed by Chars called with the text,
\* leaves (in src/builder.go: for one and the same order of the ranges over
\* the map); and when the call returns, the start tag has been written as an
\* open tag, the text after it escaped once, the element is no longer pending,
\* and a following End writes its closing tag.
C28_TextIsChars ==
    panic = "" =>
        \A element \in Names, args \in TextArgs :
            IF variant = "counter"
            THEN LET r == Element(Cur, element, args) IN
                 /\ r = ElementChars(Cur, element, args)
                 /\ r.panic = "" => OpenWithText(r, element, args[1], End(r))
            ELSE \A ord1, ord2 \in Orders :
                     LET r == builder_Element(Cur, element, args, ord1, ord2) IN
                     /\ r = builder_ElementChars(Cur, element, args, ord1, ord2)
                     /\ r.panic = "" =>
                           OpenWithText(r, element, args[1], builder_End(r, ord2))

\* Element("a", "<"), then End: the open tag, the escaped text, the closing
\* tag.
C28_Witness ==
    /\ variant = "counter" /\ panic = ""
    /\ Len(calls) = 2
    /\ calls[1].op = "Element" /\ calls[1].args = <<Str("<")>>
    /\ calls[2].op = "End"
    /\ Len(out) = 3
    /\ out[1].kind = "start" /\ ~out[1].slash /\ ~out[1].close
    /\ out[2].kind = "text" /\ out[2].data = <<"&", "l", "t", ";">>
    /\ out[3].kind = "end" /\ out[3].name = Str("a")

\* The name/value pairs stored, in the order of storing, for the element
\* pushed in this step: those its start tag was written with, or those still
\* in the attribute buffer when the tag has not been written.
StoredForNew ==
    LET w == Written(out, out')
        tags == {i \in 1..Len(w) : w[i].kind = "start" /\ w[i].id = opened + 1}
        given == IF tags # {} THEN w[CHOOSE i \in tags : TRUE].given ELSE sets'
        own == SelectSeq(given, LAMBDA g : g[3])
    IN [i \in 1..Len(own) |-> <<own[i][1], own[i][2]>>]

\* The pairs Element stores of the key/value arguments pairs: all of them in
\* src/builder.go, those with a name and a value in the inline-counter builder.
StoredOf(pairs) ==
    LET kept == IF variant = "counter" THEN KeptPairs(pairs) ELSE pairs
    IN [i \in 1..Len(kept) |-> <<s(kept[i][1]), s(kept[i][2])>>]

\* In this step, a call of Element or Tag with an odd number of arguments
\* took text for its text content and rest for its key/value pairs: every text
\* it wrote is text, escaped; it wrote that text once if it returned; and if
\* it got as far as pushing the element, it stored the pairs of rest in order.
TakenAs(text, rest) ==
    LET w == Written(out, out')
        texts == {i \in 1..Len(w) : w[i].kind = "text"}
    IN /\ \A i \in texts : w[i].data = htmlEscaper(s(text))
       /\ panic' = "" => Cardinality(texts) = 1
       /\ opened' = opened + 1 => StoredForNew = StoredOf(PairsOf(rest))

\* This step is a call of Element or Tag with an odd number of arguments.
OddCall ==
    /\ calls' # calls
    /\ Op \in {"Element", "Tag"}
    /\ Len(Last(calls').args) % 2 = 1

\* C29 as stated: when Element or Tag receives an odd number of arguments
\* after the name, the last of them is taken as the text content and the
\* arguments before it as key/value pairs in order.
C29_TextLast ==
    [][OddCall => TakenAs(Last(Last(calls').args), Front(Last(calls').args))]_vars

\* C29 (amended): when Element or Tag receives an odd number of arguments
\* after the name, the first of them is taken as the text content and the
\* arguments after it as key/value pairs in order.
C29_TextFirst ==
    [][OddCall => TakenAs(Head(Last(calls').args), Tail(Last(calls').args))]_vars

\* Tag("t", "k", "k", "j", "j", "<") has written <t k="j" j="&lt;">k</t>.
C29_Witness ==
    /\ variant = "counter" /\ panic = ""
    /\ Len(calls) = 1 /\ calls[1].op = "Tag"
    /\ calls[1].args = <<K, K, J, J, Str("<")>>
    /\ \E i \in 1..(Len(out) - 1) :
          /\ out[i].kind = "start"
          /\ out[i].attrs = <<<<K, J>>, <<J, <<"&", "l", "t", ";">>>>>>
          /\ out[i + 1].kind = "text" /\ out[i + 1].data = K

-----------------------------------------------------------------------------
(* The order of the output *)

\* C30: a call that writes to the sink while an element is pending first
\* writes the start tag of that element: the first piece it writes is that
\* start tag, so nothing a later call writes comes ahead of the start tag of
\* an earlier Element call.
C30_CallOrder ==
    [][(calls' # calls /\ buildingElement /\ out' # out) =>
          LET first == Written(out, out')[1]
          IN first.kind = "start" /\ first.id = Last(ids)]_vars

-----------------------------------------------------------------------------
(* The attribute buffer and the pending element *)

\* The names the attribute buffer holds.
Buffered(attrs, names) ==
    {k \in Keys : attrs[k] # Absent} \cup {names[i] : i \in 1..Len(names)}

\* The names the call made in this step hands to the attribute buffer after it
\* has written the start tag that was pending: the names of the pairs of an
\* Element or Tag call, none for another call.
NamesOfCall ==
    LET c == Last(calls') IN
    IF c.op \in {"Element", "Tag"}
    THEN {s(c.args[i]) : i \in {i \in 1..(Len(c.args) - 1) : i % 2 # Len(c.args) % 2}}
    ELSE {}

\* C31: a call that writes a start tag empties the attribute buffer as it does:
\* after the call the buffer holds nothing but what the call itself stored for
\* the element it pushed afterwards (nothing at all after Chars, CharsNoEscape,
\* Cdata, End, Inline or Flush); and every attribute a start tag carries was
\* stored after the start tag before it was written, so that no attribute is
\* written on two tags.
C31_BufferEmptied ==
    /\ [][(calls' # calls
             /\ \E i \in (Len(out) + 1)..Len(out') : out'[i].kind = "start") =>
                Buffered(attributes', attrnames') \subseteq NamesOfCall]_vars
    /\ [](\A i \in 1..Len(out) :
             out[i].kind = "start" =>
                 \A j \in 1..Len(out[i].attrs) :
                     \E k \in 1..Len(out[i].given) :
                         out[i].given[k][1] = out[i].attrs[j][1])

\* Element("a", "k", "v"), Element("b"), End: <a k="v"> and <b /> have been
\* written, b without the attribute of a, and the buffer is empty.
C31_Witness ==
    /\ variant = "counter" /\ panic = ""
    /\ Len(calls) = 3 /\ calls[3].op = "End"
    /\ Len(out) = 2
    /\ out[1].kind = "start" /\ out[1].attrs = <<<<K, Str("v")>>>>
    /\ out[2].kind = "start" /\ out[2].attrs = <<>> /\ out[2].id = 2
    /\ attributes = NoAttributes /\ attrnames = <<>>

\* The name given to the most recent Element call, Tag calling Element with
\* its own name.
LastElementName ==
    LET made == {i \in 1..Len(calls) : calls[i].op \in {"Element", "Tag"}}
    IN calls[CHOOSE i \in made : \A j \in made : j <= i].name

\* C32: in every reachable state in which an element is pending, the stack is
\* not empty and its top entry is the pending element: the element pushed
\* last, under the name its Element call gave it, which is the most recent
\* Element call unless that call panicked before pushing.  So writing the
\* pending start tag never finds the stack empty; and every start tag written
\* bears the name of the element that was pending, or of the element the call
\* itself pushed.
C32_PendingIsTop ==
    /\ [](buildingElement =>
             /\ elements # <<>>
             /\ Last(ids) = opened
             /\ Last(elements) = calls[PushCall(opened)].name
             /\ (panic = "" =>
                   /\ Last(elements) = LastElementName
                   /\ IF variant = "counter"
                      THEN outputElement(Cur, FALSE).panic # "index out of range"
                      ELSE \A ord \in Orders :
                              builder_outputElement(Cur, FALSE, pretty, ord).panic
                                  # "index out of range"))
    /\ [][\A i \in (Len(out) + 1)..Len(out') :
             out'[i].kind = "start" =>
                 IF buildingElement /\ out'[i].id = Last(ids)
                 THEN out'[i].name = Last(elements)
                 ELSE /\ Op \in {"Element", "Tag"}
                      /\ out'[i].id = opened'
                      /\ out'[i].name = Last(calls').name]_vars

\* Element("a"), Element("b"): b is pending on top of a, whose start tag the
\* second call has written.
C32_Witness ==
    /\ panic = ""
    /\ Len(calls) = 2 /\ calls[1].op = "Element" /\ calls[2].op = "Element"
    /\ buildingElement
    /\ elements = <<calls[1].name, calls[2].name>>
    /\ Len(out) = 1 /\ out[1].kind = "start" /\ out[1].name = calls[1].name

-----------------------------------------------------------------------------
(* What Tag and balanced call sequences leave behind *)

\* C33: a Tag call made at inline depth >= 0 that returns leaves the stack of
\* open elements (names and identities), the inline depth and the offset as
\* they were before the call, leaves no element pending and leaves the
\* attribute buffer empty.
C33_TagNeutral ==
    [][(Called("Tag") /\ panic' = "" /\ (variant = "counter" => inline >= 0)) =>
          /\ elements' = elements
          /\ ids' = ids
          /\ inline' = inline
          /\ offset' = offset
          /\ ~buildingElement'
          /\ attributes' = NoAttributes
          /\ attrnames' = <<>>]_vars

\* Tag was called with an attribute in inline mode while an element was
\* pending, and returned: the pending tag and the tag of the new element are
\* written, and the stack, the depth and the offset are those of before.
C33_Witness ==
    /\ variant = "counter" /\ panic = ""
    /\ Len(calls) = 3
    /\ calls[1].op = "Element" /\ calls[2].op = "Inline" /\ calls[3].op = "Tag"
    /\ Len(calls[3].args) = 2
    /\ elements = <<calls[1].name>> /\ inline = 1 /\ offset = 0
    /\ ~buildingElement /\ attributes = NoAttributes /\ attrnames = <<>>
    /\ \E i \in 1..Len(out) :
          /\ out[i].kind = "start" /\ out[i].id = 2
          /\ Len(out[i].attrs) = 1

\* The calls cs are properly nested: every End closes the innermost bracket
\* still open and that bracket is an Element, every EndInline closes the
\* innermost bracket still open and that bracket is an Inline, and no bracket
\* is left open.  Tag opens and closes its own element and region.
RECURSIVE Nested(_, _)
Nested(cs, open) ==
    IF cs = <<>> THEN open = <<>>
    ELSE LET c == Head(cs) IN
         IF c.op \in {"Element", "Inline"}
         THEN Nested(Tail(cs), Append(open, c.op))
         ELSE IF c.op = "End"
         THEN open # <<>> /\ Last(open) = "Element" /\ Nested(Tail(cs), Front(open))
         ELSE IF c.op = "EndInline"
         THEN open # <<>> /\ Last(open) = "Inline" /\ Nested(Tail(cs), Front(open))
         ELSE Nested(Tail(cs), open)

\* The sum of the deltas given to the Offset calls among cs.
RECURSIVE OffsetSum(_)
OffsetSum(cs) ==
    IF cs = <<>> THEN 0
    ELSE (IF Head(cs).op = "Offset" THEN Head(cs).delta ELSE 0) + OffsetSum(Tail(cs))

\* The structural state of a fresh builder, but for the offset, which is the
\* sum of the deltas given: nothing open, nothing pending, nothing in the
\* attribute buffer, block mode, and a start tag in the sink for every element
\* opened.
BackToInitial ==
    /\ elements = <<>> /\ ids = <<>>
    /\ ~buildingElement
    /\ attributes = NoAttributes /\ attrnames = <<>>
    /\ inline = (IF variant = "counter" THEN 0 ELSE FALSE)
    /\ offset = OffsetSum(calls)
    /\ Cardinality({i \in 1..Len(out) : out[i].kind = "start"})
          = Made("Element") + Made("Tag")

\* C34: after any properly nested sequence of calls on a fresh builder the
\* builder is back in its initial structural state, with the offset equal to
\* the sum of the Offset deltas, and every start tag is in the sink.
C34_BalancedReset == Nested(calls, <<>>) => BackToInitial

=============================================================================
